---------------------------- MODULE Spec2Model ----------------------------
(***************************************************************************)
(* A model of the lespetitsvendredis crawler (src/scripts/crawl.ts) and    *)
(* static site generator (src/unnamed/part_000).                           *)
(*                                                                         *)
(* Strings are sequences of one-character strings, so that the string      *)
(* routines of the source (trim, split, parseInt, regular expressions,     *)
(* basename, ...) are computed rather than assumed.  An optional value     *)
(* (T | null) is a sequence of length at most one: << >> is null.          *)
(***************************************************************************)
EXTENDS Integers, Sequences, FiniteSets, TLC

VARIABLES
    pc,             \* position of the program that is running
    \* ---- French date helpers, run on one date string
    dateIn,         \* the (day, month, year, form) the date string is built from
    dateStr,        \* argument of parseFrenchDate
    dt,             \* result of parseFrenchDate: << >> or <<Date>>
    formatted,      \* result of formatDate(dt)
    \* ---- generator (main of src/unnamed/part_000)
    tzOffset,       \* time zone of the machine, minutes west of Greenwich
    dataFile,       \* posts_data.json: << >> when unreadable, else <<posts>>
    attachmentFile, \* attachment_slugs.json: << >> when it cannot be loaded, else <<slugs>>
    attachmentSlugs,\* the memo _attachmentSlugs: << >> is null
    allPosts,       \* data.posts
    posts,          \* the filtered, annotated and sorted posts
    pageIdx,        \* i of the post page loop (0-based)
    docs,           \* the output directory: file path |-> content
    writes,         \* the files written by this run, in order: [path, content]
    \* ---- the images directory docs/images, shared by crawler and generator
    imagesDir,      \* the names of the files in it
    \* ---- crawler (main of src/scripts/crawl.ts)
    sitemapXml,     \* the site's sitemap: << >> when the fetch fails, else <<locs>>
    allUrls,        \* result of fetchSitemap
    postUrls,       \* allUrls.filter(isBlogPostUrl)
    urlIdx,         \* i of the post loop (0-based)
    crawled,        \* the posts array of the crawler
    allImages,      \* the Set of image URLs, in insertion order
    imgIdx,         \* how many of allImages have been handled
    imageMap,       \* the crawler's imageMap, in insertion order: [url, file]
    savedData,      \* the written posts_data.json: << >> until written
    log,            \* what the crawler did, in order (fetches, sleeps, downloads, writes)
    \* ---- content cleaning and image resolution, run on one input
    htmlStr,        \* argument of cleanContentHtml: the parsed fragment
    cleaned,        \* cleanContentHtml(htmlStr, imageMap)
    cleanedTwice,   \* cleanContentHtml(cleaned, imageMap)
    imageUrl,       \* argument of findLocalImage
    localFile,      \* findLocalImage(imageUrl, imageMap)
    \* ---- the excerpt, run on one text
    rootText,       \* parse(html).text, the text getExcerpt works on
    maxLength,      \* argument maxLength of getExcerpt
    excerpt,        \* getExcerpt(html, maxLength): << >> until returned
    \* ---- runs of a program, one after the other on the same disk
    run             \* the number of the run under way, from 1

dateVars == <<dateIn, dateStr, dt, formatted>>
genVars == <<tzOffset, dataFile, attachmentFile, attachmentSlugs, allPosts, posts,
             pageIdx, docs, writes>>
crawlVars == <<sitemapXml, allUrls, postUrls, urlIdx, crawled, allImages, imgIdx,
               imageMap, savedData, log>>
cleanVars == <<htmlStr, cleaned, cleanedTwice, imageUrl, localFile>>
excerptVars == <<rootText, maxLength, excerpt>>
vars == <<pc, dateVars, genVars, imagesDir, crawlVars, cleanVars, excerptVars, run>>

-----------------------------------------------------------------------------
(* Each program runs on its own: the state of the others stays as it is here *)

\* A directory without files
EmptyDir == << >>

DateIdle == dateIn = << >> /\ dateStr = << >> /\ dt = << >> /\ formatted = << >>

GenIdle ==
    /\ tzOffset = 0 /\ dataFile = << >> /\ attachmentFile = << >>
    /\ attachmentSlugs = << >> /\ allPosts = << >> /\ posts = << >>
    /\ pageIdx = 0 /\ docs = EmptyDir /\ writes = << >>

CrawlIdle ==
    /\ sitemapXml = << >> /\ allUrls = << >> /\ postUrls = << >> /\ urlIdx = 0
    /\ crawled = << >> /\ allImages = << >> /\ imgIdx = 0 /\ imageMap = << >>
    /\ savedData = << >> /\ log = << >>

CleanIdle ==
    htmlStr = << >> /\ cleaned = << >> /\ cleanedTwice = << >> /\ imageUrl = << >>
    /\ localFile = << >>

ExcerptIdle == rootText = << >> /\ maxLength = 0 /\ excerpt = << >>

-----------------------------------------------------------------------------
(* Bounds of the model *)

\* Years of the date strings are BaseYears plus 0 .. YearSpan - 1 each.
YearSpan == 2
\* The dataset holds at most MaxPosts posts.
MaxPosts == 3
\* The sitemap holds at most MaxUrls <loc> entries.
MaxUrls == 2
\* A content fragment has at most MaxNodes nodes (elements and texts).
MaxNodes == 3
\* A fragment of figures, image links and images only has at most MaxImageNodes nodes.
MaxImageNodes == 4
\* The image map given to findLocalImage holds at most MaxEntries entries.
MaxEntries == 2
\* The text given to getExcerpt has at most MaxTextLen characters.
MaxTextLen == 6
\* The maximum length given to getExcerpt is at most MaxExcerptLen.
MaxExcerptLen == 4
\* The crawler and the generator are run at most MaxRuns times in a row.
MaxRuns == 2
\* The dataset of generator runs in a row has at most MaxRerunPosts posts.
MaxRerunPosts == 2
\* The sitemap given to the URL filter alone lists at most MaxLocs URLs.
MaxLocs == 2
\* The sitemap of crawl runs in a row lists at most MaxRecrawlUrls URLs.
MaxRecrawlUrls == 1

-----------------------------------------------------------------------------
(* Characters and strings *)

Digits == <<"0", "1", "2", "3", "4", "5", "6", "7", "8", "9">>
UpperChars == <<"A", "B", "C", "D", "E", "F", "G", "H", "I", "J", "K", "L", "M",
                "N", "O", "P", "Q", "R", "S", "T", "U", "V", "W", "X", "Y", "Z">>
LowerChars == <<"a", "b", "c", "d", "e", "f", "g", "h", "i", "j", "k", "l", "m",
                "n", "o", "p", "q", "r", "s", "t", "u", "v", "w", "x", "y", "z">>

\* The accented letters of the month names, each one character.
E_ACUTE == "e-acute"
E_ACUTE_UPPER == "E-ACUTE"
U_CIRCUMFLEX == "u-circumflex"
U_CIRCUMFLEX_UPPER == "U-CIRCUMFLEX"

Range(s) == {s[i] : i \in DOMAIN s}

IsDigit(c) == c \in Range(Digits)
DigitVal(c) == (CHOOSE i \in DOMAIN Digits : Digits[i] = c) - 1
\* \s of a JavaScript regular expression, and the characters trim() strips
IsSpace(c) == c \in {" ", "\t", "\n"}
\* \w of a JavaScript regular expression: [A-Za-z0-9_]
IsWord(c) == c \in Range(Digits) \cup Range(UpperChars) \cup Range(LowerChars) \cup {"_"}

\* String.prototype.toLowerCase, one character
LowerChar(c) ==
    IF c \in Range(UpperChars)
    THEN LowerChars[CHOOSE i \in DOMAIN UpperChars : UpperChars[i] = c]
    ELSE IF c = E_ACUTE_UPPER THEN E_ACUTE ELSE IF c = U_CIRCUMFLEX_UPPER THEN U_CIRCUMFLEX ELSE c
toLowerCase(s) == [i \in DOMAIN s |-> LowerChar(s[i])]

\* String.prototype.startsWith / endsWith
startsWith(s, p) == Len(p) <= Len(s) /\ SubSeq(s, 1, Len(p)) = p
endsWith(s, p) == Len(p) <= Len(s) /\ SubSeq(s, Len(s) - Len(p) + 1, Len(s)) = p
\* String.prototype.slice(0, n)
slice0(s, n) == SubSeq(s, 1, IF n < Len(s) THEN n ELSE Len(s))

\* String.prototype.trim
RECURSIVE trimStart(_)
trimStart(s) == IF s # << >> /\ IsSpace(Head(s)) THEN trimStart(Tail(s)) ELSE s
RECURSIVE trimEnd(_)
trimEnd(s) ==
    IF s # << >> /\ IsSpace(s[Len(s)]) THEN trimEnd(SubSeq(s, 1, Len(s) - 1)) ELSE s
trim(s) == trimEnd(trimStart(s))

\* s.split(/\s+/): the pieces between maximal runs of white space.  acc is the
\* piece being read; inRun says the previous character was white space.
RECURSIVE splitWs(_, _, _)
splitWs(s, acc, inRun) ==
    IF s = << >> THEN <<acc>>
    ELSE IF IsSpace(Head(s))
         THEN IF inRun THEN splitWs(Tail(s), acc, TRUE)
                       ELSE <<acc>> \o splitWs(Tail(s), << >>, TRUE)
         ELSE splitWs(Tail(s), Append(acc, Head(s)), FALSE)
splitWhitespace(s) == splitWs(s, << >>, FALSE)

\* The longest prefix of decimal digits of s, as a number; n is the value so far.
RECURSIVE digitsValue(_, _)
digitsValue(s, n) ==
    IF s # << >> /\ IsDigit(Head(s)) THEN digitsValue(Tail(s), 10 * n + DigitVal(Head(s)))
    ELSE n

\* parseInt(s, 10): leading white space, an optional sign, then digits; anything
\* after the digits is ignored.  << >> is NaN, <<n>> the number n.
parseInt(str) ==
    LET s == trimStart(str)
        neg == s # << >> /\ Head(s) = "-"
        body == IF s # << >> /\ Head(s) \in {"-", "+"} THEN Tail(s) ELSE s
    IN IF body = << >> \/ ~IsDigit(Head(body)) THEN << >>
       ELSE <<(IF neg THEN -1 ELSE 1) * digitsValue(body, 0)>>

\* String(n) of an integer
RECURSIVE natToString(_)
natToString(n) ==
    IF n < 10 THEN <<Digits[n + 1]>>
    ELSE Append(natToString(n \div 10), Digits[(n % 10) + 1])
numToString(n) == IF n < 0 THEN <<"-">> \o natToString(-n) ELSE natToString(n)

\* String(n).padStart(2, "0")
padStart2(s) == IF Len(s) < 2 THEN <<"0">> \o s ELSE s

-----------------------------------------------------------------------------
(* URLs and paths *)

\* s.indexOf(sub), 1-based; 0 when sub does not occur
indexOf(s, sub) ==
    LET hits == {i \in 1 .. Len(s) - Len(sub) + 1 : SubSeq(s, i, i + Len(sub) - 1) = sub}
    IN IF hits = {} THEN 0 ELSE CHOOSE i \in hits : \A k \in hits : i <= k
includes(s, sub) == indexOf(s, sub) # 0
\* The first index of s, from 1, whose character is in set; Len(s) + 1 when none
firstOf(s, set) ==
    LET hits == {i \in DOMAIN s : s[i] \in set}
    IN IF hits = {} THEN Len(s) + 1 ELSE CHOOSE i \in hits : \A k \in hits : i <= k
lastIndexOf(s, c) ==
    LET hits == {i \in DOMAIN s : s[i] = c}
    IN IF hits = {} THEN 0 ELSE CHOOSE i \in hits : \A k \in hits : i >= k

\* s.replace(pat, rep) with a string pattern: the first occurrence only
replaceFirst(s, pat, rep) ==
    LET i == indexOf(s, pat)
    IN IF i = 0 THEN s
       ELSE SubSeq(s, 1, i - 1) \o rep \o SubSeq(s, i + Len(pat), Len(s))

HTTP == <<"h", "t", "t", "p", ":", "/", "/">>
HTTPS == <<"h", "t", "t", "p", "s", ":", "/", "/">>
\* url.replace("http://", "https://")
normalizeProtocol(url) == replaceFirst(url, HTTP, HTTPS)

\* new URL(url).pathname of an absolute http(s) URL: what follows the host,
\* up to the query or fragment; "/" when the URL has no path.
pathname(url) ==
    LET rest == SubSeq(url, indexOf(url, <<":", "/", "/">>) + 3, Len(url))
        fromPath == SubSeq(rest, firstOf(rest, {"/", "?", "#"}), Len(rest))
        path == SubSeq(fromPath, 1, firstOf(fromPath, {"?", "#"}) - 1)
    IN IF path = << >> THEN <<"/">> ELSE path

\* path.replace(/^\/|\/$/g, ""): one leading and one trailing slash
stripSlashes(path) ==
    LET a == IF path # << >> /\ Head(path) = "/" THEN Tail(path) ELSE path
    IN IF a # << >> /\ a[Len(a)] = "/" THEN SubSeq(a, 1, Len(a) - 1) ELSE a

\* s.split("?")[0]
beforeQuery(s) == SubSeq(s, 1, firstOf(s, {"?"}) - 1)

\* basename of node:path: the last segment, trailing slashes ignored
RECURSIVE dropTrailingSlashes(_)
dropTrailingSlashes(s) ==
    IF s # << >> /\ s[Len(s)] = "/" THEN dropTrailingSlashes(SubSeq(s, 1, Len(s) - 1)) ELSE s
basename(p) ==
    LET q == dropTrailingSlashes(p)
    IN SubSeq(q, lastIndexOf(q, "/") + 1, Len(q))

\* name.replace(/[^\w\-_.]/g, "_")
sanitize(name) ==
    [i \in DOMAIN name |-> IF IsWord(name[i]) \/ name[i] \in {"-", "_", "."}
                           THEN name[i] ELSE "_"]

JPG == <<".", "j", "p", "g">>

-----------------------------------------------------------------------------
(* JavaScript Date, local time: a Date is its local calendar day.  The time *)
(* value is counted in minutes instead of milliseconds.                     *)

\* Days from 1970-01-01 to the proleptic Gregorian day (y, m, d), m in 1..12.
daysFromCivil(y, m, d) ==
    LET yy == IF m <= 2 THEN y - 1 ELSE y
        era == yy \div 400
        yoe == yy - era * 400
        mp == IF m > 2 THEN m - 3 ELSE m + 9
        doy == (153 * mp + 2) \div 5 + d - 1
        doe == yoe * 365 + yoe \div 4 - yoe \div 100 + doy
    IN era * 146097 + doe - 719468

\* The calendar day that is z days after 1970-01-01.
civilFromDays(z) ==
    LET zz == z + 719468
        era == zz \div 146097
        doe == zz - era * 146097
        yoe == (doe - doe \div 1460 + doe \div 36524 - doe \div 146096) \div 365
        doy == doe - (365 * yoe + yoe \div 4 - yoe \div 100)
        mp == (5 * doy + 2) \div 153
        d == doy - (153 * mp + 2) \div 5 + 1
        m == IF mp < 10 THEN mp + 3 ELSE mp - 9
    IN [year |-> yoe + era * 400 + (IF m <= 2 THEN 1 ELSE 0), month |-> m - 1, date |-> d]

\* new Date(year, monthIndex, day): years 0..99 mean 1900..1999, and a day
\* outside the month rolls over into the neighbouring months.
newDate(year, monthIndex, day) ==
    LET y == IF year >= 0 /\ year <= 99 THEN 1900 + year ELSE year
    IN civilFromDays(daysFromCivil(y, monthIndex + 1, 1) + day - 1)

getFullYear(d) == d.year
getMonth(d) == d.month
getDate(d) == d.date
\* Date.prototype.getTime of local midnight, in minutes; tz is
\* getTimezoneOffset() of the machine (minutes, positive west of Greenwich).
getTime(d, tz) == daysFromCivil(d.year, d.month + 1, d.date) * 1440 + tz

-----------------------------------------------------------------------------
(* French date helpers *)

FRENCH_MONTHS == <<
    <<"j", "a", "n", "v", "i", "e", "r">>,
    <<"f", E_ACUTE, "v", "r", "i", "e", "r">>,
    <<"m", "a", "r", "s">>,
    <<"a", "v", "r", "i", "l">>,
    <<"m", "a", "i">>,
    <<"j", "u", "i", "n">>,
    <<"j", "u", "i", "l", "l", "e", "t">>,
    <<"a", "o", U_CIRCUMFLEX, "t">>,
    <<"s", "e", "p", "t", "e", "m", "b", "r", "e">>,
    <<"o", "c", "t", "o", "b", "r", "e">>,
    <<"n", "o", "v", "e", "m", "b", "r", "e">>,
    <<"d", E_ACUTE, "c", "e", "m", "b", "r", "e">> >>

\* FRENCH_MONTH_TO_NUM[name] ?? 0
FRENCH_MONTH_TO_NUM(name) ==
    IF \E n \in DOMAIN FRENCH_MONTHS : FRENCH_MONTHS[n] = name
    THEN CHOOSE n \in DOMAIN FRENCH_MONTHS : FRENCH_MONTHS[n] = name
    ELSE 0

\* The fuzzy match: the first month, in table order, whose first three
\* characters start monthStr; 0 when there is none.
fuzzyMonth(monthStr) ==
    LET hits == {n \in DOMAIN FRENCH_MONTHS : startsWith(monthStr, slice0(FRENCH_MONTHS[n], 3))}
    IN IF hits = {} THEN 0 ELSE CHOOSE n \in hits : \A k \in hits : n <= k

\* parseFrenchDate with the month passed to new Date as it is (not month - 1)
parseFrenchDate_MonthOffByOne(str) ==
    IF str = << >> THEN << >>
    ELSE LET parts == splitWhitespace(trim(str))
         IN IF Len(parts) < 3 THEN << >>
            ELSE LET day == parseInt(parts[1])
                     monthStr == toLowerCase(parts[2])
                     exact == FRENCH_MONTH_TO_NUM(monthStr)
                     month == IF exact = 0 THEN fuzzyMonth(monthStr) ELSE exact
                     year == parseInt(parts[3])
                 IN IF day \in {<< >>, <<0>>} \/ month = 0 \/ year \in {<< >>, <<0>>}
                    THEN << >>
                    ELSE <<newDate(year[1], month, day[1])>>

parseFrenchDate(str) ==
    IF str = << >> THEN << >>
    ELSE LET parts == splitWhitespace(trim(str))
         IN IF Len(parts) < 3 THEN << >>
            ELSE LET day == parseInt(parts[1])
                     monthStr == toLowerCase(parts[2])
                     exact == FRENCH_MONTH_TO_NUM(monthStr)
                     month == IF exact = 0 THEN fuzzyMonth(monthStr) ELSE exact
                     year == parseInt(parts[3])
                 IN IF day \in {<< >>, <<0>>} \/ month = 0 \/ year \in {<< >>, <<0>>}
                    THEN << >>
                    ELSE <<newDate(year[1], month - 1, day[1])>>

formatDate(d) ==
    IF d = << >> THEN << >>
    ELSE numToString(getDate(d[1])) \o <<" ">> \o FRENCH_MONTHS[getMonth(d[1]) + 1]
         \o <<" ">> \o numToString(getFullYear(d[1]))

-----------------------------------------------------------------------------
(* The date helpers run on one date string *)

BaseYears == {1899, 1969, 2019, 2023}
DateYears == {b + k : b \in BaseYears, k \in 0 .. YearSpan - 1} \cup {0, 7, 99}
DateForms == {"canonical", "zeroDay", "capital", "spaces", "time", "abbrev",
              "unknownMonth", "noYear", "wordDay", "wordYear"}

\* "D monthname YYYY"
CanonicalDate(d, m, y) ==
    numToString(d) \o <<" ">> \o FRENCH_MONTHS[m] \o <<" ">> \o numToString(y)

Capitalize(s) ==
    [i \in DOMAIN s |-> IF i = 1 /\ s[i] \in Range(LowerChars)
                        THEN UpperChars[CHOOSE k \in DOMAIN LowerChars : LowerChars[k] = s[i]]
                        ELSE s[i]]

\* The date string of a (day, month, year) in one of the forms a page can show.
DateString(d, m, y, form) ==
    CASE form = "canonical" -> CanonicalDate(d, m, y)
      [] form = "zeroDay" -> <<"0">> \o CanonicalDate(d, m, y)
      [] form = "capital" ->
            numToString(d) \o <<" ">> \o Capitalize(FRENCH_MONTHS[m]) \o <<" ">> \o numToString(y)
      [] form = "spaces" ->
            <<" ">> \o numToString(d) \o <<" ", "\t">> \o FRENCH_MONTHS[m] \o <<"\n">>
            \o numToString(y) \o <<" ">>
      [] form = "time" -> CanonicalDate(d, m, y) \o <<" ", "1", "0", "h">>
      [] form = "abbrev" ->
            numToString(d) \o <<" ">> \o slice0(FRENCH_MONTHS[m], 3) \o <<".", " ">> \o numToString(y)
      [] form = "unknownMonth" ->
            numToString(d) \o <<" ", "m", "o", "i", "s", " ">> \o numToString(y)
      [] form = "noYear" -> numToString(d) \o <<" ">> \o FRENCH_MONTHS[m]
      [] form = "wordDay" -> <<"l", "e", " ">> \o FRENCH_MONTHS[m] \o <<" ">> \o numToString(y)
      [] form = "wordYear" -> numToString(d) \o <<" ">> \o FRENCH_MONTHS[m] \o <<" ", "a", "n">>


-----------------------------------------------------------------------------
(* Generator: filtering, ordering and the pages *)

\* A post of the dataset is [slug, date]; main adds parsedDate and
\* parsedDateStr.  The other fields (title, content_html, images, comments)
\* are carried through main unread by the steps below.
Slugs == {"a", "b"}

\* loadAttachmentSlugs(): the memo if set, else the file's slugs, or the empty
\* set when the file cannot be loaded.
loadAttachmentSlugs(memo, file) ==
    IF memo # << >> THEN memo[1]
    ELSE IF file # << >> THEN file[1] ELSE {}

\* isBlogPost without the look-up in the attachment slugs
isBlogPost_KeepsAll(post, memo, file) == TRUE

\* isBlogPost(post)
isBlogPost(post, memo, file) == post.slug \notin loadAttachmentSlugs(memo, file)

\* allPosts.filter(isBlogPost)
RECURSIVE filterPosts(_, _, _)
filterPosts(ps, memo, file) ==
    IF ps = << >> THEN << >>
    ELSE (IF isBlogPost(Head(ps), memo, file) THEN <<Head(ps)>> ELSE << >>)
         \o filterPosts(Tail(ps), memo, file)

\* p.parsedDate = dt; p.parsedDateStr = dt ? formatDate(dt) : p.date
annotate(p) ==
    LET d == parseFrenchDate(p.date)
    IN [slug |-> p.slug, date |-> p.date, parsedDate |-> d,
        parsedDateStr |-> IF d # << >> THEN formatDate(d) ELSE p.date]

\* p.parsedDate?.getTime() ?? 0
sortKey(p, tz) == IF p.parsedDate = << >> THEN 0 ELSE getTime(p.parsedDate[1], tz)

\* The comparator with its operands exchanged
compare_OldestFirst(a, b, tz) == sortKey(a, tz) - sortKey(b, tz)

\* The comparator of posts.sort: (a, b) => key(b) - key(a)
compare(a, b, tz) == sortKey(b, tz) - sortKey(a, tz)

\* Array.prototype.sort is stable: x goes after every element it does not
\* have to precede.
RECURSIVE insertSorted(_, _, _)
insertSorted(s, x, tz) ==
    IF s = << >> THEN <<x>>
    ELSE IF compare(x, Head(s), tz) < 0 THEN <<x>> \o s
         ELSE <<Head(s)>> \o insertSorted(Tail(s), x, tz)
RECURSIVE sortPosts(_, _)
sortPosts(ps, tz) ==
    IF ps = << >> THEN << >>
    ELSE insertSorted(sortPosts(SubSeq(ps, 1, Len(ps) - 1), tz), ps[Len(ps)], tz)

\* generatePostPage: the page of a post; prev and next are the href slugs of
\* the "Precedent" and "Suivant" links, << >> where the page has no such link.
generatePostPage(post, prevPost, nextPost) ==
    [kind |-> "post", slug |-> post.slug, dateStr |-> post.parsedDateStr,
     prev |-> IF prevPost = << >> THEN << >> ELSE <<prevPost[1].slug>>,
     next |-> IF nextPost = << >> THEN << >> ELSE <<nextPost[1].slug>>]

\* generateHomepage: one list item per post, in order
generateHomepage(ps) ==
    [kind |-> "home",
     items |-> [k \in DOMAIN ps |-> [slug |-> ps[k].slug, dateStr |-> ps[k].parsedDateStr]]]

\* YYYY-MM-DD of the sitemap's <lastmod>
lastmodOf(d) ==
    numToString(getFullYear(d)) \o <<"-">> \o padStart2(numToString(getMonth(d) + 1))
    \o <<"-">> \o padStart2(numToString(getDate(d)))

\* generateSitemap that takes the presence of a date string for a parsed date
generateSitemap_LastmodFromDateString(ps) ==
    <<[loc |-> << >>, lastmod |-> << >>]>>
    \o [k \in DOMAIN ps |->
          [loc |-> <<ps[k].slug>>,
           lastmod |-> IF ps[k].date # << >> THEN <<ps[k].date>> ELSE << >>]]

\* The sitemap: the homepage entry, then one entry per post.  loc is << >>
\* for the homepage and <<slug>> for /slug/.
generateSitemap(ps) ==
    <<[loc |-> << >>, lastmod |-> << >>]>>
    \o [k \in DOMAIN ps |->
          [loc |-> <<ps[k].slug>>,
           lastmod |-> IF ps[k].parsedDate # << >>
                       THEN <<lastmodOf(ps[k].parsedDate[1])>> ELSE << >>]]

\* Bun.write(join(OUTPUT_DIR, ...), content)
writeFile(fs, path, content) ==
    [p \in DOMAIN fs \cup {path} |-> IF p = path THEN content ELSE fs[p]]

StaticFile(name) == [kind |-> name]
ManualRobots == [kind |-> "robots.txt (edited by hand)"]

GenDates == {CanonicalDate(5, 3, 2020), CanonicalDate(10, 3, 2021),
             CanonicalDate(5, 3, 1960), << >>,
             DateString(5, 3, 2020, "unknownMonth")}

RECURSIVE SeqsUpTo(_, _)
SeqsUpTo(S, n) ==
    IF n = 0 THEN {<< >>}
    ELSE LET shorter == SeqsUpTo(S, n - 1)
         IN shorter \cup {Append(s, x) : s \in {t \in shorter : Len(t) = n - 1}, x \in S}

Datasets == SeqsUpTo([slug : Slugs, date : GenDates], MaxPosts)


GenInit ==
    /\ pc = "read"
    /\ DateIdle /\ CrawlIdle /\ CleanIdle /\ ExcerptIdle /\ run = 1 /\ imagesDir = {}
    /\ tzOffset \in {-60, 300}
    /\ dataFile \in {<< >>} \cup {<<d>> : d \in Datasets}
    /\ attachmentFile \in {<< >>} \cup {<<s>> : s \in SUBSET Slugs}
    /\ attachmentSlugs = << >>
    /\ allPosts = << >>
    /\ posts = << >>
    /\ pageIdx = 0
    /\ docs \in {EmptyDir, writeFile(EmptyDir, <<"robots.txt">>, ManualRobots)}
    /\ writes = << >>

\* const data = await Bun.file(DATA_FILE).json(); an unreadable dataset
\* rejects main, and main().catch exits with status 1.
ReadData ==
    /\ pc = "read"
    /\ IF dataFile = << >>
       THEN pc' = "fatal" /\ UNCHANGED allPosts
       ELSE pc' = "filter" /\ allPosts' = dataFile[1]
    /\ UNCHANGED <<run, excerptVars, dateVars, imagesDir, crawlVars, cleanVars>>
    /\ UNCHANGED <<tzOffset, dataFile, attachmentFile, attachmentSlugs,
                   posts, pageIdx, docs, writes>>

\* const posts = allPosts.filter(isBlogPost); the first call of
\* loadAttachmentSlugs fills the memo.
FilterPosts ==
    /\ pc = "filter"
    /\ posts' = filterPosts(allPosts, attachmentSlugs, attachmentFile)
    /\ attachmentSlugs' = IF allPosts = << >> THEN attachmentSlugs
                          ELSE <<loadAttachmentSlugs(attachmentSlugs, attachmentFile)>>
    /\ pc' = "parse"
    /\ UNCHANGED <<run, excerptVars, dateVars, imagesDir, crawlVars, cleanVars>>
    /\ UNCHANGED <<tzOffset, dataFile, attachmentFile, allPosts, pageIdx, docs, writes>>

\* for (const p of posts) { p.parsedDate = ...; p.parsedDateStr = ... }
ParseDates ==
    /\ pc = "parse"
    /\ posts' = [k \in DOMAIN posts |-> annotate(posts[k])]
    /\ pc' = "sort"
    /\ UNCHANGED <<run, excerptVars, dateVars, imagesDir, crawlVars, cleanVars>>
    /\ UNCHANGED <<tzOffset, dataFile, attachmentFile, attachmentSlugs,
                   allPosts, pageIdx, docs, writes>>

\* posts.sort(...)
SortPosts ==
    /\ pc = "sort"
    /\ posts' = sortPosts(posts, tzOffset)
    /\ pc' = "css"
    /\ UNCHANGED <<run, excerptVars, dateVars, imagesDir, crawlVars, cleanVars>>
    /\ UNCHANGED <<tzOffset, dataFile, attachmentFile, attachmentSlugs,
                   allPosts, pageIdx, docs, writes>>

\* A step of main that writes one file and moves on.
WriteStep(at, path, content, to) ==
    /\ pc = at
    /\ docs' = writeFile(docs, path, content)
    /\ writes' = Append(writes, [path |-> path, content |-> content])
    /\ pc' = to
    /\ UNCHANGED <<run, excerptVars, dateVars, imagesDir, crawlVars, cleanVars>>
    /\ UNCHANGED <<tzOffset, dataFile, attachmentFile, attachmentSlugs,
                   allPosts, posts>>

WriteCss ==
    /\ WriteStep("css", <<"style.css">>, StaticFile("style.css"), "pages")
    /\ pageIdx' = 0

\* One turn of the post page loop: page i, with posts[i + 1] as previous and
\* posts[i - 1] as next (0-based i; the sequence is 1-based).
WritePostPage ==
    /\ pageIdx < Len(posts)
    /\ LET i == pageIdx + 1
           post == posts[i]
           prevPost == IF i + 1 <= Len(posts) THEN <<posts[i + 1]>> ELSE << >>
           nextPost == IF i > 1 THEN <<posts[i - 1]>> ELSE << >>
       IN WriteStep("pages", <<post.slug, "index.html">>,
                    generatePostPage(post, prevPost, nextPost), "pages")
    /\ pageIdx' = pageIdx + 1

WriteHomepage ==
    /\ pageIdx >= Len(posts)
    /\ WriteStep("pages", <<"index.html">>, generateHomepage(posts), "cname")
    /\ UNCHANGED pageIdx

WriteCname ==
    WriteStep("cname", <<"CNAME">>, StaticFile("CNAME"), "nojekyll") /\ UNCHANGED pageIdx

WriteNojekyll ==
    WriteStep("nojekyll", <<".nojekyll">>, StaticFile(".nojekyll"), "404")
    /\ UNCHANGED pageIdx

Write404 ==
    WriteStep("404", <<"404.html">>, StaticFile("404.html"), "sitemap") /\ UNCHANGED pageIdx

WriteSitemap ==
    /\ WriteStep("sitemap", <<"sitemap.xml">>,
                 [kind |-> "sitemap", urls |-> generateSitemap(posts)], "robots")
    /\ UNCHANGED pageIdx

\* The last step of main writing robots.txt like every other file
WriteRobots_Overwrites ==
    WriteStep("robots", <<"robots.txt">>, StaticFile("robots.txt"), "done")
    /\ UNCHANGED pageIdx

\* if (!existsSync(robotsPath)) write it, else skip
WriteRobots ==
    /\ pc = "robots"
    /\ IF <<"robots.txt">> \notin DOMAIN docs
       THEN /\ docs' = writeFile(docs, <<"robots.txt">>, StaticFile("robots.txt"))
            /\ writes' = Append(writes, [path |-> <<"robots.txt">>,
                                          content |-> StaticFile("robots.txt")])
       ELSE UNCHANGED <<docs, writes>>
    /\ pc' = "done"
    /\ UNCHANGED <<run, excerptVars, dateVars, imagesDir, crawlVars, cleanVars>>
    /\ UNCHANGED <<tzOffset, dataFile, attachmentFile, attachmentSlugs,
                   allPosts, posts, pageIdx>>

GenNext ==
    \/ ReadData \/ FilterPosts \/ ParseDates \/ SortPosts \/ WriteCss
    \/ WritePostPage \/ WriteHomepage \/ WriteCname \/ WriteNojekyll \/ Write404
    \/ WriteSitemap \/ WriteRobots

Spec == GenInit /\ [][GenNext]_vars

\* The generator is started again (bun run generate) after a run that came
\* to its end; the memo of loadAttachmentSlugs and the lists are those of a
\* fresh process, the output directory is what the previous run left, as it
\* is or with every file of it edited by hand in between.
EditedByHand(fs) ==
    [p \in DOMAIN fs |-> IF p = <<"robots.txt">> THEN ManualRobots
                         ELSE [kind |-> "edited by hand"]]
GenAgain ==
    /\ pc = "done"
    /\ run < MaxRuns
    /\ run' = run + 1
    /\ pc' = "read"
    /\ attachmentSlugs' = << >> /\ allPosts' = << >> /\ posts' = << >> /\ pageIdx' = 0
    /\ writes' = << >>
    /\ docs' \in {docs, EditedByHand(docs)}
    /\ UNCHANGED <<excerptVars, dateVars, imagesDir, crawlVars, cleanVars>>
    /\ UNCHANGED <<tzOffset, dataFile, attachmentFile>>

\* Runs in a row, over datasets of up to MaxRerunPosts posts
RegenInit == GenInit /\ (dataFile # << >> => Len(dataFile[1]) <= MaxRerunPosts)
RegenNext == GenNext \/ GenAgain
SpecRegen == RegenInit /\ [][RegenNext]_vars

-----------------------------------------------------------------------------
(* Crawler *)

BASE_URL == <<"h", "t", "t", "p", "s", ":", "/", "/", "l", "e", "s", "p", "e", "t", "i", "t", "s", "v", "e", "n", "d", "r", "e", "d", "i", "s", ".", "c", "o", "m">>
SKIP_SLUGS == {<<"p", "r", "o", "d", "u", "c", "t", "s">>,
               <<"a", "c", "t", "i", "v", "i", "t", "e", "s", "-", "d", "u", "-", "s", "i", "t", "e">>,
               <<"m", "e", "m", "b", "r", "e", "s">>,
               <<"p", "a", "g", "e", "-", "d", "-", "e", "x", "e", "m", "p", "l", "e">>}
ATTACHMENT_ID == <<"a", "t", "t", "a", "c", "h", "m", "e", "n", "t", "_", "i", "d">>
\* The author picture that main always adds to the images
AVATAR_URL == BASE_URL \o <<"/", "w", "p", "-", "c", "o", "n", "t", "e", "n", "t", "/", "t", "h", "e", "m", "e", "s", "/", "v", "i", "n", "t", "a", "g", "e", "c", "u", "s", "t", "o", "m", "/", "i", "m", "a", "g", "e", "s", "/", "s", "y", "l", "v", "i", "e", ".", "j", "p", "g">>

\* isBlogPostUrl without the test of SKIP_SLUGS
isBlogPostUrl_NoSkipList(url) ==
    LET path == stripSlashes(pathname(url))
    IN /\ path # << >>
       /\ ~includes(path, <<"/">>)
       /\ ~includes(url, ATTACHMENT_ID)

isBlogPostUrl(url) ==
    LET path == stripSlashes(pathname(url))
    IN /\ path # << >>
       /\ path \notin SKIP_SLUGS
       /\ ~includes(path, <<"/">>)
       /\ ~includes(url, ATTACHMENT_ID)

\* A fetched page, as extractPost sees it: whether it has a post container
\* (div.post-N or article) and the image URLs its content yields.
\* extractPost returns null (<< >>) without a container.
extractPost(url, page) ==
    IF ~page.container THEN << >>
    ELSE <<[slug |-> stripSlashes(pathname(url)), url |-> url, images |-> page.images]>>

\* cleanFilename(name)
cleanFilename(name) ==
    IF sanitize(name) = << >> THEN <<"i", "m", "a", "g", "e">> \o JPG ELSE sanitize(name)

\* The URL downloadImage fetches and the file name it derives.  The image
\* URLs of a post are absolute (extractPost resolves the others).
downloadUrl(imgUrl) ==
    normalizeProtocol(IF startsWith(imgUrl, <<"/", "/">>)
                      THEN <<"h", "t", "t", "p", "s", ":">> \o imgUrl ELSE imgUrl)
downloadName(imgUrl) == cleanFilename(basename(pathname(downloadUrl(imgUrl))))

\* imageMap[url] ?? null, on the ordered map
mapGet(map, url) ==
    IF \E k \in DOMAIN map : map[k].url = url
    THEN <<map[CHOOSE k \in DOMAIN map : map[k].url = url].file>>
    ELSE << >>
\* imageMap[url] = file
mapSet(map, url, file) ==
    IF \E k \in DOMAIN map : map[k].url = url
    THEN [k \in DOMAIN map |-> IF map[k].url = url THEN [url |-> url, file |-> file] ELSE map[k]]
    ELSE Append(map, [url |-> url, file |-> file])

\* allImages.add(img) for every img of imgs, in order
RECURSIVE addAll(_, _)
addAll(set, imgs) ==
    IF imgs = << >> THEN set
    ELSE addAll(IF Head(imgs) \in Range(set) THEN set ELSE Append(set, Head(imgs)), Tail(imgs))
RECURSIVE collectImages(_)
collectImages(ps) ==
    IF ps = << >> THEN << >>
    ELSE addAll(collectImages(SubSeq(ps, 1, Len(ps) - 1)), ps[Len(ps)].images)

\* post.local_images of step 5
localImages(post, map) ==
    [k \in DOMAIN post.images |->
        LET n == mapGet(map, normalizeProtocol(post.images[k]))
        IN IF n # << >> THEN n ELSE mapGet(map, post.images[k])]

SitemapLocs == {BASE_URL \o <<"/", "f", "o", "o", "/">>,
                BASE_URL \o <<"/", "f", "o", "o">>,
                BASE_URL \o <<"/", "b", "a", "r", "/">>,
                BASE_URL \o <<"/", "p", "r", "o", "d", "u", "c", "t", "s", "/">>,
                BASE_URL \o <<"/", "f", "o", "o", "/", "p", "a", "g", "e", "/">>,
                BASE_URL \o <<"/", "b", "a", "r", "/", "?", "a", "t", "t", "a", "c", "h", "m", "e", "n", "t", "_", "i", "d", "=", "7">>,
                BASE_URL \o <<"/">>}
\* Image URLs a post page can yield
IMG_P == BASE_URL \o <<"/", "u", "p", "/", "p", ".", "j", "p", "g">>
IMG_P_HTTP == <<"h", "t", "t", "p", ":", "/", "/", "l", "e", "s", "p", "e", "t", "i", "t", "s", "v", "e", "n", "d", "r", "e", "d", "i", "s", ".", "c", "o", "m", "/", "u", "p", "/", "p", ".", "j", "p", "g">>
IMG_Q == BASE_URL \o <<"/", "u", "p", "/", "q", "%", "2", "0", ".", "j", "p", "g", "?", "v", "=", "2">>
Pages == {[container |-> FALSE, images |-> << >>],
          [container |-> TRUE, images |-> << >>],
          [container |-> TRUE, images |-> <<IMG_P>>],
          [container |-> TRUE, images |-> <<IMG_P_HTTP, IMG_Q>>]}

\* URLs for the filter alone: paths with and without slashes, of one and of
\* more segments, in and out of SKIP_SLUGS, with and without a query
UrlPaths == {<< >>,
             <<"/">>,
             <<"/", "f", "o", "o">>,
             <<"/", "f", "o", "o", "/">>,
             <<"/", "/", "f", "o", "o">>,
             <<"/", "f", "o", "o", "/", "/">>,
             <<"/", "f", "o", "o", "/", "p", "a", "g", "e">>,
             <<"/", "f", "o", "o", "/", "p", "a", "g", "e", "/">>,
             <<"/", "p", "r", "o", "d", "u", "c", "t", "s">>,
             <<"/", "p", "r", "o", "d", "u", "c", "t", "s", "/">>,
             <<"/", "m", "e", "m", "b", "r", "e", "s", "/">>,
             <<"/", "P", "r", "o", "d", "u", "c", "t", "s", "/">>,
             <<"/", "p", "r", "o", "d", "u", "c", "t", "s", "/", "x", "/">>,
             <<"/", "p", "a", "g", "e", "-", "d", "-", "e", "x", "e", "m", "p", "l", "e">>,
             <<"/", "a", "t", "t", "a", "c", "h", "m", "e", "n", "t", "_", "i", "d", "/">>,
             <<"/", "x", "-", "p", "r", "o", "d", "u", "c", "t", "s", "/">>}
UrlQueries == {<< >>,
               <<"?", "p", "=", "7">>,
               <<"?", "a", "t", "t", "a", "c", "h", "m", "e", "n", "t", "_", "i", "d", "=", "7">>,
               <<"#", "a", "t", "t", "a", "c", "h", "m", "e", "n", "t", "_", "i", "d">>}
UrlInputs == {BASE_URL \o path \o query : path \in UrlPaths, query \in UrlQueries}

\* isBlogPostUrl on the URLs a sitemap of the model lists, and the file name
\* downloadImage derives for the image URLs of the model, each computed once
BlogPostUrls == {u \in SitemapLocs \cup UrlInputs : isBlogPostUrl(u)}
CrawlImageUrls == {IMG_P, IMG_P_HTTP, IMG_Q, AVATAR_URL}
FileNames == [u \in CrawlImageUrls |-> downloadName(u)]

\* allUrls.filter(isBlogPostUrl)
RECURSIVE filterUrls(_)
filterUrls(urls) ==
    IF urls = << >> THEN << >>
    ELSE (IF Head(urls) \in BlogPostUrls THEN <<Head(urls)>> ELSE << >>)
         \o filterUrls(Tail(urls))

CrawlInit ==
    /\ pc = "sitemap"
    /\ DateIdle /\ GenIdle /\ CleanIdle /\ ExcerptIdle /\ run = 1
    /\ imagesDir \in {{}, {downloadName(IMG_P)}}
    /\ sitemapXml \in {<< >>} \cup {<<u>> : u \in SeqsUpTo(SitemapLocs, MaxUrls)}
    /\ allUrls = << >> /\ postUrls = << >> /\ urlIdx = 0
    /\ crawled = << >> /\ allImages = << >> /\ imgIdx = 0 /\ imageMap = << >>
    /\ savedData = << >> /\ log = << >>

\* const allUrls = await fetchSitemap(): a failed fetch rejects main
FetchSitemap ==
    /\ pc = "sitemap"
    /\ log' = Append(log, [op |-> "fetchSitemap"])
    /\ IF sitemapXml = << >>
       THEN pc' = "fatal" /\ UNCHANGED allUrls
       ELSE pc' = "filterUrls" /\ allUrls' = sitemapXml[1]
    /\ UNCHANGED <<run, excerptVars, dateVars, genVars, cleanVars, imagesDir, sitemapXml, postUrls, urlIdx, crawled,
                   allImages, imgIdx, imageMap, savedData>>

\* const postUrls = allUrls.filter(isBlogPostUrl)
FilterUrls ==
    /\ pc = "filterUrls"
    /\ postUrls' = filterUrls(allUrls)
    /\ urlIdx' = 0
    /\ pc' = "posts"
    /\ UNCHANGED <<run, excerptVars, dateVars, genVars, cleanVars, imagesDir, sitemapXml, allUrls, crawled,
                   allImages, imgIdx, imageMap, savedData, log>>

\* The post loop without its try/catch: an error of fetchText rejects main
FetchPost_ErrorAborts ==
    /\ pc = "posts"
    /\ urlIdx < Len(postUrls)
    /\ LET url == postUrls[urlIdx + 1]
       IN \/ /\ crawled' = crawled
             /\ log' = Append(log, [op |-> "fetchPost", url |-> url, result |-> "error"])
             /\ pc' = "fatal"
          \/ \E page \in Pages :
                /\ crawled' = crawled \o extractPost(url, page)
                /\ log' = Append(log, [op |-> "fetchPost", url |-> url,
                                       result |-> IF page.container THEN "post" ELSE "skipped"])
                /\ pc' = "sleep"
    /\ UNCHANGED <<run, excerptVars, dateVars, genVars, cleanVars, imagesDir, sitemapXml, allUrls, postUrls, urlIdx,
                   allImages, imgIdx, imageMap, savedData>>

\* One turn of the post loop: fetchText(url) throws (caught, logged), or the
\* page is extracted and pushed when extractPost returns a post.
FetchPost ==
    /\ pc = "posts"
    /\ urlIdx < Len(postUrls)
    /\ LET url == postUrls[urlIdx + 1]
       IN \/ /\ crawled' = crawled
             /\ log' = Append(log, [op |-> "fetchPost", url |-> url, result |-> "error"])
          \/ \E page \in Pages :
                /\ crawled' = crawled \o extractPost(url, page)
                /\ log' = Append(log, [op |-> "fetchPost", url |-> url,
                                       result |-> IF page.container THEN "post" ELSE "skipped"])
    /\ pc' = "sleep"
    /\ UNCHANGED <<run, excerptVars, dateVars, genVars, cleanVars, imagesDir, sitemapXml, allUrls, postUrls, urlIdx,
                   allImages, imgIdx, imageMap, savedData>>

\* await Bun.sleep(500), then i++
Sleep ==
    /\ pc = "sleep"
    /\ log' = Append(log, [op |-> "sleep"])
    /\ urlIdx' = urlIdx + 1
    /\ pc' = "posts"
    /\ UNCHANGED <<run, excerptVars, dateVars, genVars, cleanVars, imagesDir, sitemapXml, allUrls, postUrls, crawled,
                   allImages, imgIdx, imageMap, savedData>>

\* Step 4 entered without waiting for the end of the post loop
CollectImages_StartsEarly ==
    /\ pc = "posts"
    /\ allImages' = addAll(collectImages(crawled), <<AVATAR_URL>>)
    /\ imgIdx' = 0
    /\ imageMap' = << >>
    /\ pc' = "images"
    /\ UNCHANGED <<run, excerptVars, dateVars, genVars, cleanVars, imagesDir, sitemapXml, allUrls, postUrls, urlIdx,
                   crawled, savedData, log>>

\* The images of all posts and the author picture are gathered in a Set.
CollectImages ==
    /\ pc = "posts"
    /\ urlIdx >= Len(postUrls)
    /\ allImages' = addAll(collectImages(crawled), <<AVATAR_URL>>)
    /\ imgIdx' = 0
    /\ imageMap' = << >>
    /\ pc' = "images"
    /\ UNCHANGED <<run, excerptVars, dateVars, genVars, cleanVars, imagesDir, sitemapXml, allUrls, postUrls, urlIdx,
                   crawled, savedData, log>>

\* The download loop with a downloadImage that returns the file name also
\* when the fetch failed
DownloadImage_FailureReturnsName ==
    /\ pc = "images"
    /\ imgIdx < Len(allImages)
    /\ LET imgUrl == allImages[imgIdx + 1]
           filename == FileNames[imgUrl]
       IN IF filename \in imagesDir
          THEN /\ imageMap' = mapSet(imageMap, imgUrl, filename)
               /\ log' = Append(log, [op |-> "download", url |-> imgUrl, result |-> "exists"])
               /\ UNCHANGED imagesDir
          ELSE \/ /\ imagesDir' = imagesDir \cup {filename}
                  /\ imageMap' = mapSet(imageMap, imgUrl, filename)
                  /\ log' = Append(log, [op |-> "download", url |-> imgUrl,
                                         result |-> "fetched"])
               \/ /\ log' = Append(log, [op |-> "download", url |-> imgUrl,
                                         result |-> "failed"])
                  /\ imageMap' = mapSet(imageMap, imgUrl, filename)
                  /\ UNCHANGED imagesDir
    /\ imgIdx' = imgIdx + 1
    /\ UNCHANGED <<run, excerptVars, pc, dateVars, genVars, cleanVars, sitemapXml, allUrls, postUrls, urlIdx, crawled,
                   allImages, savedData>>

\* The download loop with a downloadImage that does not look for the file
DownloadImage_NoExistsCheck ==
    /\ pc = "images"
    /\ imgIdx < Len(allImages)
    /\ LET imgUrl == allImages[imgIdx + 1]
           filename == FileNames[imgUrl]
       IN \/ /\ imagesDir' = imagesDir \cup {filename}
             /\ imageMap' = mapSet(imageMap, imgUrl, filename)
             /\ log' = Append(log, [op |-> "download", url |-> imgUrl, result |-> "fetched"])
          \/ /\ log' = Append(log, [op |-> "download", url |-> imgUrl, result |-> "failed"])
             /\ UNCHANGED <<imagesDir, imageMap>>
    /\ imgIdx' = imgIdx + 1
    /\ UNCHANGED <<run, excerptVars, pc, dateVars, genVars, cleanVars, sitemapXml, allUrls, postUrls, urlIdx, crawled,
                   allImages, savedData>>

\* One turn of the download loop: downloadImage(imgUrl) returns the name of
\* the existing file, or fetches and writes it, or returns null on a failure.
DownloadImage ==
    /\ pc = "images"
    /\ imgIdx < Len(allImages)
    /\ LET imgUrl == allImages[imgIdx + 1]
           filename == FileNames[imgUrl]
       IN IF filename \in imagesDir
          THEN /\ imageMap' = mapSet(imageMap, imgUrl, filename)
               /\ log' = Append(log, [op |-> "download", url |-> imgUrl, result |-> "exists"])
               /\ UNCHANGED imagesDir
          ELSE \/ /\ imagesDir' = imagesDir \cup {filename}
                  /\ imageMap' = mapSet(imageMap, imgUrl, filename)
                  /\ log' = Append(log, [op |-> "download", url |-> imgUrl,
                                         result |-> "fetched"])
               \/ /\ log' = Append(log, [op |-> "download", url |-> imgUrl,
                                         result |-> "failed"])
                  /\ UNCHANGED <<imagesDir, imageMap>>
    /\ imgIdx' = imgIdx + 1
    /\ UNCHANGED <<run, excerptVars, pc, dateVars, genVars, cleanVars, sitemapXml, allUrls, postUrls, urlIdx, crawled,
                   allImages, savedData>>

\* Steps 5 and 6: local_images of every post, then the JSON file
SaveData ==
    /\ pc = "images"
    /\ imgIdx >= Len(allImages)
    /\ crawled' = [k \in DOMAIN crawled |->
                     [slug |-> crawled[k].slug, url |-> crawled[k].url,
                      images |-> crawled[k].images,
                      local_images |-> localImages(crawled[k], imageMap)]]
    /\ savedData' = <<[posts |-> crawled', image_map |-> imageMap]>>
    /\ log' = Append(log, [op |-> "write"])
    /\ pc' = "crawled"
    /\ UNCHANGED <<run, excerptVars, dateVars, genVars, cleanVars, imagesDir, sitemapXml, allUrls, postUrls, urlIdx,
                   allImages, imgIdx, imageMap>>

\* The filter of step 2 on its own, after a sitemap fetch that gave up to
\* MaxLocs URLs
FilterInit ==
    /\ pc = "filterUrls"
    /\ DateIdle /\ GenIdle /\ CleanIdle /\ ExcerptIdle /\ run = 1 /\ imagesDir = {}
    /\ allUrls \in SeqsUpTo(UrlInputs, MaxLocs)
    /\ sitemapXml = <<allUrls>>
    /\ postUrls = << >> /\ urlIdx = 0
    /\ crawled = << >> /\ allImages = << >> /\ imgIdx = 0 /\ imageMap = << >>
    /\ savedData = << >> /\ log = <<[op |-> "fetchSitemap"]>>
FilterNext == FilterUrls
SpecFilter == FilterInit /\ [][FilterNext]_vars

\* The script is started again (bun run scripts/crawl.ts) after a run that
\* wrote its dataset: the images directory and the dataset file are what the
\* previous run left, everything else is the state of a fresh process.
CrawlAgain ==
    /\ pc = "crawled"
    /\ run < MaxRuns
    /\ run' = run + 1
    /\ pc' = "sitemap"
    /\ allUrls' = << >> /\ postUrls' = << >> /\ urlIdx' = 0
    /\ crawled' = << >> /\ allImages' = << >> /\ imgIdx' = 0 /\ imageMap' = << >>
    /\ log' = << >>
    /\ UNCHANGED <<excerptVars, dateVars, genVars, cleanVars, imagesDir, sitemapXml, savedData>>

\* The steps of one run of main
CrawlRun ==
    \/ FetchSitemap \/ FilterUrls \/ FetchPost \/ Sleep \/ CollectImages
    \/ DownloadImage \/ SaveData

CrawlNext == CrawlRun

SpecCrawl == CrawlInit /\ [][CrawlNext]_vars

\* Runs in a row, over sitemaps of up to MaxRecrawlUrls URLs
RecrawlInit == CrawlInit /\ (sitemapXml # << >> => Len(sitemapXml[1]) <= MaxRecrawlUrls)
RecrawlNext == CrawlRun \/ CrawlAgain
SpecRecrawl == RecrawlInit /\ [][RecrawlNext]_vars

\* main is one sequential async function: it goes on as soon as the promise
\* it awaits settles.  Every fetch, sleep and write is taken to settle (the
\* requests carry no timeout); nothing obliges anybody to start the script
\* again.
SpecCrawlFair == SpecCrawl /\ WF_vars(CrawlRun)

\* C2: after a crawl run the posts of the written dataset have pairwise
\* distinct slugs, whatever <loc> URLs the sitemap lists: no two candidate
\* URLs yield the same slug.
C2_DistinctSlugs ==
    /\ \A i, j \in DOMAIN postUrls :
          i # j => stripSlashes(pathname(postUrls[i])) # stripSlashes(pathname(postUrls[j]))
    /\ savedData # << >> =>
          \A i, j \in DOMAIN savedData[1].posts :
              i # j => savedData[1].posts[i].slug # savedData[1].posts[j].slug

-----------------------------------------------------------------------------
(* Image resolution (generator) *)

\* The largest index of s up to k whose character is not a digit; 0 when none
lastNonDigit(s, k) ==
    LET hits == {i \in 1 .. k : ~IsDigit(s[i])}
    IN IF hits = {} THEN 0 ELSE CHOOSE i \in hits : \A j \in hits : i >= j

\* s.replace(/-\d+x\d+(\.\w+)$/, "$1"): the extension is what follows the last
\* dot; before the dot stand digits, an x, digits and a hyphen.
stripSizeSuffix(s) ==
    LET dot == lastIndexOf(s, ".")
        x == IF dot > 1 THEN lastNonDigit(s, dot - 1) ELSE 0
        h == IF x > 1 THEN lastNonDigit(s, x - 1) ELSE 0
    IN IF /\ dot > 0 /\ dot < Len(s)
          /\ \A i \in dot + 1 .. Len(s) : IsWord(s[i])
          /\ x >= 1 /\ x < dot - 1 /\ s[x] = "x"
          /\ h >= 1 /\ h < x - 1 /\ s[h] = "-"
       THEN SubSeq(s, 1, h - 1) \o SubSeq(s, dot, Len(s))
       ELSE s

\* The value of the first entry, in the map's order, whose key has the file
\* name; << >> when there is none.
firstByBasename(map, filename) ==
    LET hits == {k \in DOMAIN map : basename(beforeQuery(map[k].url)) = filename}
    IN IF hits = {} THEN << >>
       ELSE <<map[CHOOSE k \in hits : \A j \in hits : k <= j].file>>

\* findLocalImage without the stage that strips the size suffix
findLocalImage_NoSizeStage(url, map, dir) ==
    LET normalized == normalizeProtocol(url)
        filename == basename(beforeQuery(url))
        cleanName == sanitize(filename)
    IN IF mapGet(map, normalized) # << >> THEN mapGet(map, normalized)[1]
       ELSE IF firstByBasename(map, filename) # << >> THEN firstByBasename(map, filename)[1]
       ELSE IF cleanName \in dir THEN cleanName
       ELSE << >>

\* findLocalImage whose disk stage also accepts the file under its raw name
findLocalImage_RawDiskName(url, map, dir) ==
    LET normalized == normalizeProtocol(url)
        baseUrl == stripSizeSuffix(normalized)
        filename == basename(beforeQuery(url))
    IN IF mapGet(map, normalized) # << >> THEN mapGet(map, normalized)[1]
       ELSE IF mapGet(map, baseUrl) # << >> THEN mapGet(map, baseUrl)[1]
       ELSE IF firstByBasename(map, filename) # << >> THEN firstByBasename(map, filename)[1]
       ELSE IF filename \in dir \/ sanitize(filename) \in dir THEN sanitize(filename)
       ELSE << >>

\* findLocalImage whose last stage returns the clean name without looking on disk
findLocalImage_DiskUnchecked(url, map, dir) ==
    LET normalized == normalizeProtocol(url)
        baseUrl == stripSizeSuffix(normalized)
        filename == basename(beforeQuery(url))
    IN IF mapGet(map, normalized) # << >> THEN mapGet(map, normalized)[1]
       ELSE IF mapGet(map, baseUrl) # << >> THEN mapGet(map, baseUrl)[1]
       ELSE IF firstByBasename(map, filename) # << >> THEN firstByBasename(map, filename)[1]
       ELSE sanitize(filename)

\* findLocalImage(url, imageMap); dir is the content of IMAGES_DIR that
\* existsSync consults.  null is << >>, which is also the empty file name.
findLocalImage(url, map, dir) ==
    LET normalized == normalizeProtocol(url)
        baseUrl == stripSizeSuffix(normalized)
        filename == basename(beforeQuery(url))
        cleanName == sanitize(filename)
    IN IF mapGet(map, normalized) # << >> THEN mapGet(map, normalized)[1]
       ELSE IF mapGet(map, baseUrl) # << >> THEN mapGet(map, baseUrl)[1]
       ELSE IF firstByBasename(map, filename) # << >> THEN firstByBasename(map, filename)[1]
       ELSE IF cleanName \in dir THEN cleanName
       ELSE << >>

-----------------------------------------------------------------------------
(* Content cleaning (generator) *)

(***************************************************************************)
(* A parsed fragment is the sequence of its nodes in document order.  A    *)
(* node is [id, tag, par, cls, href, src, wp, text]: par is the index of   *)
(* the parent node, 0 for a child of the root and -1 for a node taken out  *)
(* of the tree (parentNode null); wp says that an img carries the          *)
(* WordPress attributes srcset, sizes, class, width, height; text is "ws"  *)
(* for a text node of white space only and "txt" for one with visible     *)
(* text; id names the node of the input a node stems from.  A node moves   *)
(* only by replaceWith, which puts an img in the place of an enclosing     *)
(* link, so the order of the indexes stays the document order.             *)
(***************************************************************************)

SHARE_CLASSES == {"a2a_kit", "addtoany_share", "sharedaddy"}
\* /a2a|addtoany|sharedaddy/.test(cls)
isShareClass(cls) == cls \in SHARE_CLASSES

\* /\.(jpg|jpeg|png|gif)$/i.test(href)
isImageHref(href) ==
    \E ext \in {<<".", "j", "p", "g">>, <<".", "j", "p", "e", "g">>,
                <<".", "p", "n", "g">>, <<".", "g", "i", "f">>} :
        endsWith(toLowerCase(href), ext)

RECURSIVE ancestors(_, _)
ancestors(dom, i) ==
    IF dom[i].par <= 0 THEN {} ELSE {dom[i].par} \cup ancestors(dom, dom[i].par)
descendants(dom, i) == {j \in DOMAIN dom : i \in ancestors(dom, j)}
RECURSIVE isAttached(_, _)
isAttached(dom, i) ==
    IF dom[i].par = 0 THEN TRUE
    ELSE IF dom[i].par < 0 THEN FALSE ELSE isAttached(dom, dom[i].par)

\* The indexes of a set, ascending
RECURSIVE ascending(_)
ascending(S) ==
    IF S = {} THEN << >>
    ELSE LET m == CHOOSE x \in S : \A y \in S : x <= y
         IN <<m>> \o ascending(S \ {m})

\* root.querySelectorAll(tags), with a condition on the class
querySelectorAll(dom, tags) ==
    ascending({i \in DOMAIN dom : isAttached(dom, i) /\ dom[i].tag \in tags})

\* el.closest(tag): the nearest of the element and its ancestors; 0 is null
closest(dom, i, tag) ==
    LET hits == {j \in ancestors(dom, i) \cup {i} : dom[j].tag = tag}
    IN IF hits = {} THEN 0 ELSE CHOOSE j \in hits : \A k \in hits : j >= k

\* el.text.trim() is not empty
hasText(dom, i) == \E j \in descendants(dom, i) : dom[j].text = "txt"
\* el.querySelector("img") is not null
hasImg(dom, i) == \E j \in descendants(dom, i) : dom[j].tag = "img"

\* el.remove()
remove(dom, i) == [dom EXCEPT ![i].par = -1]
RECURSIVE removeAll(_, _)
removeAll(dom, S) ==
    IF S = {} THEN dom
    ELSE LET i == CHOOSE x \in S : TRUE IN removeAll(remove(dom, i), S \ {i})

\* a.replaceWith(img); a link that is out of the tree has no place to give
replaceWith(dom, a, img) ==
    IF dom[a].par < 0 THEN dom
    ELSE [dom EXCEPT ![img].par = dom[a].par, ![a].par = -1]

\* The wrapper: root.querySelector("div.entry-content"), 0 when there is none
findWrapper(dom) ==
    LET hits == {i \in DOMAIN dom : isAttached(dom, i) /\ dom[i].tag = "div"
                                      /\ dom[i].cls = "entry-content"}
    IN IF hits = {} THEN 0 ELSE CHOOSE i \in hits : \A j \in hits : i <= j

\* root = parse(wrapper.outerHTML): only the wrapper and what it holds stay
unwrap(dom, w) ==
    IF w = 0 THEN dom
    ELSE [i \in DOMAIN dom |->
            IF i = w THEN [dom[i] EXCEPT !.par = 0]
            ELSE IF w \in ancestors(dom, i) THEN dom[i]
            ELSE [dom[i] EXCEPT !.par = -1]]

\* Remove share buttons
removeShareButtons(dom) ==
    removeAll(dom, {i \in Range(querySelectorAll(dom, {"div", "span"})) :
                       isShareClass(dom[i].cls)})

\* Remove more-links
removeMoreLinks(dom) ==
    removeAll(dom, {i \in Range(querySelectorAll(dom, {"a"})) : dom[i].cls = "more-link"})

\* Remove empty paragraphs and divs (no text and no img).  An element is
\* looked at before anything below it, so all are judged on the tree as it
\* is when the loop starts.
pruneEmpty(dom) ==
    removeAll(dom, {i \in Range(querySelectorAll(dom, {"p", "div"})) :
                       ~hasText(dom, i) /\ ~hasImg(dom, i)})

IMAGES_PREFIX == <<"/", "i", "m", "a", "g", "e", "s", "/">>

\* One turn of the "Fix images" loop, for the img at index i
fixImage(dom, i, map, dir) ==
    IF dom[i].src = << >> THEN dom
    ELSE LET file == findLocalImage(dom[i].src, map, dir)
         IN IF file = << >>
            THEN LET parentFig == closest(dom, i, "figure")
                     parentA == closest(dom, i, "a")
                 IN IF parentFig # 0 THEN remove(dom, parentFig)
                    ELSE IF parentA # 0 THEN remove(dom, parentA)
                    ELSE remove(dom, i)
            ELSE LET d1 == [dom EXCEPT ![i].src = IMAGES_PREFIX \o file, ![i].wp = FALSE]
                     a == closest(d1, i, "a")
                 IN IF a # 0 /\ isImageHref(d1[a].href) THEN replaceWith(d1, a, i) ELSE d1

\* The loop over root.querySelectorAll("img"), a list taken before the loop
RECURSIVE fixImagesLoop(_, _, _, _)
fixImagesLoop(dom, imgs, map, dir) ==
    IF imgs = << >> THEN dom
    ELSE fixImagesLoop(fixImage(dom, Head(imgs), map, dir), Tail(imgs), map, dir)
fixImages(dom, map, dir) == fixImagesLoop(dom, querySelectorAll(dom, {"img"}), map, dir)

\* One turn of the "Remove empty figcaptions" loop: the first figcaption of
\* the figure goes when it has no visible text.
RECURSIVE removeEmptyCaptionsLoop(_, _)
removeEmptyCaptionsLoop(dom, figs) ==
    IF figs = << >> THEN dom
    ELSE LET caps == {j \in descendants(dom, Head(figs)) : dom[j].tag = "figcaption"}
             cap == IF caps = {} THEN 0 ELSE CHOOSE j \in caps : \A k \in caps : j <= k
         IN removeEmptyCaptionsLoop(
                IF cap # 0 /\ ~hasText(dom, cap) THEN remove(dom, cap) ELSE dom,
                Tail(figs))
removeEmptyCaptions(dom) == removeEmptyCaptionsLoop(dom, querySelectorAll(dom, {"figure"}))

\* wrapper.innerHTML, or root.innerHTML without a wrapper: the nodes below the
\* wrapper (the root), renumbered in document order.
innerHTML(dom, w) ==
    LET kept == ascending({i \in DOMAIN dom :
                              IF w = 0 THEN isAttached(dom, i) ELSE w \in ancestors(dom, i)})
        newIndex(old) == CHOOSE k \in DOMAIN kept : kept[k] = old
    IN [k \in DOMAIN kept |->
          [dom[kept[k]] EXCEPT !.par = IF dom[kept[k]].par = w THEN 0
                                       ELSE newIndex(dom[kept[k]].par)]]

\* The nodes of a forest outside the subtrees of the nodes in S, renumbered
dropSubtrees(f, S) ==
    LET kept == ascending({i \in DOMAIN f : i \notin S /\ ancestors(f, i) \cap S = {}})
        newIndex(old) == CHOOSE k \in DOMAIN kept : kept[k] = old
    IN [k \in DOMAIN kept |->
          [f[kept[k]] EXCEPT !.par = IF f[kept[k]].par = 0 THEN 0
                                     ELSE newIndex(f[kept[k]].par)]]

children(f, i) == {j \in DOMAIN f : f[j].par = i}
\* An element written <tag> (no attribute) that holds white space only, with
\* one <br> in it when withBr: what the clean-up patterns match.
matchesEmpty(f, i, tag, withBr) ==
    /\ f[i].tag = tag /\ f[i].cls = ""
    /\ \A j \in children(f, i) : f[j].text = "ws" \/ (withBr /\ f[j].tag = "br")
    /\ Cardinality({j \in children(f, i) : f[j].tag = "br"}) = (IF withBr THEN 1 ELSE 0)
\* One .replace(pattern, "") of the clean-up chain
replaceEmpty(f, tag, withBr) ==
    dropSubtrees(f, {i \in DOMAIN f : matchesEmpty(f, i, tag, withBr)})

\* Text that is adjacent in the markup is one text node: a text node whose
\* previous sibling (the node just before it, at the same parent) is a text
\* node merges into it.
mergesIntoPrevious(f, i) ==
    /\ f[i].text # "" /\ i > 1 /\ f[i - 1].text # "" /\ f[i - 1].par = f[i].par
RECURSIVE runHasText(_, _)
runHasText(f, i) ==
    \/ f[i].text = "txt"
    \/ i < Len(f) /\ mergesIntoPrevious(f, i + 1) /\ runHasText(f, i + 1)
mergeText(f) ==
    LET g == [i \in DOMAIN f |->
                 IF f[i].text # "" /\ ~mergesIntoPrevious(f, i)
                 THEN [f[i] EXCEPT !.text = IF runHasText(f, i) THEN "txt" ELSE "ws"]
                 ELSE f[i]]
    IN dropSubtrees(g, {i \in DOMAIN f : mergesIntoPrevious(f, i)})

\* innerHTML.trim(): white space at either end of the markup goes
trimHtml(f) ==
    dropSubtrees(f, {i \in DOMAIN f :
                        /\ f[i].text = "ws" /\ f[i].par = 0
                        /\ \/ \A j \in 1 .. i - 1 : FALSE
                           \/ \A j \in i + 1 .. Len(f) : FALSE})

\* The clean-up chain on the markup, and the trim
cleanUp(f) ==
    trimHtml(mergeText(
        replaceEmpty(replaceEmpty(replaceEmpty(replaceEmpty(f, "p", TRUE), "p", FALSE),
                                  "div", TRUE), "div", FALSE)))

cleanContentHtml(html, map, dir) ==
    IF html = << >> THEN << >>
    ELSE LET wrapper == findWrapper(html)
             d0 == unwrap(html, wrapper)
             d1 == removeShareButtons(d0)
             d2 == removeMoreLinks(d1)
             d3 == pruneEmpty(d2)
             d4 == fixImages(d3, map, dir)
             d5 == removeEmptyCaptions(d4)
         IN cleanUp(innerHTML(d5, wrapper))

-----------------------------------------------------------------------------
(* The inputs of the cleaning and of the image resolution *)

HOST == SubSeq(BASE_URL, Len(HTTPS) + 1, Len(BASE_URL))
FILE_P == <<"p">> \o JPG
FILE_P_SIZED == <<"p", "-", "3", "x", "2">> \o JPG
FILE_Q_RAW == <<"q", "%", "2", "0">> \o JPG
FILE_Q_CLEAN == <<"q", "_", "2", "0">> \o JPG
FILE_ALT == <<"a", "l", "t">> \o JPG
\* The same picture in a size of its own, under http and under https
IMG_P_SIZED == BASE_URL \o <<"/", "u", "p", "/">> \o FILE_P_SIZED
IMG_P_SIZED_HTTP == HTTP \o HOST \o <<"/", "u", "p", "/">> \o FILE_P_SIZED
\* Pictures of the same names in another folder
IMG_X_P == BASE_URL \o <<"/", "x", "/">> \o FILE_P
IMG_X_P_SIZED == BASE_URL \o <<"/", "x", "/">> \o FILE_P_SIZED
\* A name that only resembles a size: no width before the x
IMG_P_NO_WIDTH == BASE_URL \o <<"/", "u", "p", "/", "p", "-", "x", "2">> \o JPG
HREF_IMAGE == <<"/", "u", "p", "/", "p", ".", "J", "P", "G">>
HREF_PAGE == <<"/", "f", "o", "o", "/">>

Label(tag, cls, href, src, wp, text) ==
    [tag |-> tag, cls |-> cls, href |-> href, src |-> src, wp |-> wp, text |-> text]
Element(tag, cls) == Label(tag, cls, << >>, << >>, FALSE, "")
Link(cls, href) == Label("a", cls, href, << >>, FALSE, "")
Img(src) == Label("img", "", << >>, src, TRUE, "")
Text(kind) == Label("#text", "", << >>, << >>, FALSE, kind)

ImageLabels == {Element("figure", ""), Link("", HREF_IMAGE), Img(IMG_P_SIZED_HTTP), Img(IMG_Q)}
Labels ==
    ImageLabels \cup
    {Element("div", c) : c \in {"", "entry-content", "addtoany_share", "wp-block-image"}} \cup
    {Element("span", "a2a_kit"), Element("p", ""), Element("figcaption", ""),
     Element("br", ""), Link("more-link", HREF_PAGE), Link("", HREF_PAGE),
     Img(<< >>), Text("ws"), Text("txt")}

Containers == {"div", "span", "p", "a", "figure", "figcaption"}
\* What the parser makes a child of what: a p ends where a p or a div
\* starts, and a link holds no link.
mayHold(f, parent, label) ==
    LET line == {f[j].tag : j \in ancestors(f, parent) \cup {parent}}
    IN /\ f[parent].tag \in Containers
       /\ label.tag \in {"p", "div"} => "p" \notin line
       /\ label.tag = "a" => "a" \notin line
\* Two texts in a row are one text
fresh(f, parent, label) ==
    ~(label.text # "" /\ f[Len(f)].text # "" /\ f[Len(f)].par = parent)

Node(i, parent, label) ==
    [id |-> i, tag |-> label.tag, par |-> parent, cls |-> label.cls, href |-> label.href,
     src |-> label.src, wp |-> label.wp, text |-> label.text]

\* The fragments of n nodes under one top element, in document order
RECURSIVE TreesOf(_, _)
TreesOf(n, labels) ==
    IF n = 1 THEN {<<Node(1, 0, l)>> : l \in labels}
    ELSE UNION {{Append(f, Node(n, q[1], q[2])) :
                    q \in {r \in (ancestors(f, n - 1) \cup {n - 1}) \X labels :
                              mayHold(f, r[1], r[2]) /\ fresh(f, r[1], r[2])}} :
                f \in TreesOf(n - 1, labels)}

MapEntry(url, file) == [url |-> url, file |-> file]
CleanMaps == {<< >>, <<MapEntry(IMG_P, FILE_P)>>}
CleanDirs == SUBSET {FILE_Q_CLEAN, FILE_Q_RAW}

ImageUrls == {IMG_P, IMG_P_HTTP, IMG_P_SIZED, IMG_P_SIZED_HTTP, IMG_X_P, IMG_P_NO_WIDTH, IMG_Q}
MapEntries == {MapEntry(IMG_P, FILE_P), MapEntry(IMG_P_SIZED, FILE_P_SIZED),
               MapEntry(IMG_X_P_SIZED, FILE_ALT), MapEntry(IMG_Q, FILE_Q_CLEAN)}
ImageMaps ==
    {m \in SeqsUpTo(MapEntries, MaxEntries) :
        \A i, j \in DOMAIN m : i # j => m[i].url # m[j].url}
ImageDirs == SUBSET {FILE_P_SIZED, FILE_Q_CLEAN, FILE_Q_RAW}

\* Of the crawler's state only the image map is read
MapOnly ==
    /\ sitemapXml = << >> /\ allUrls = << >> /\ postUrls = << >> /\ urlIdx = 0
    /\ crawled = << >> /\ allImages = << >> /\ imgIdx = 0
    /\ savedData = << >> /\ log = << >>

-----------------------------------------------------------------------------
(* The cleaning run on one fragment: the specification *)

CleanInit ==
    /\ pc = "clean"
    /\ DateIdle /\ GenIdle /\ MapOnly /\ ExcerptIdle /\ run = 1
    /\ htmlStr \in {<< >>} \cup UNION {TreesOf(n, Labels) : n \in 1 .. MaxNodes}
                         \cup UNION {TreesOf(n, ImageLabels) : n \in 1 .. MaxImageNodes}
    /\ imageMap \in CleanMaps
    /\ imagesDir \in CleanDirs
    /\ cleaned = << >> /\ cleanedTwice = << >> /\ imageUrl = << >> /\ localFile = << >>

\* const content = cleanContentHtml(post.content_html, imageMap)
CleanContent ==
    /\ pc = "clean"
    /\ cleaned' = cleanContentHtml(htmlStr, imageMap, imagesDir)
    /\ pc' = "cleaned"
    /\ UNCHANGED <<run, excerptVars, dateVars, genVars, imagesDir, crawlVars, htmlStr, cleanedTwice,
                   imageUrl, localFile>>

\* cleanContentHtml run on its own output
CleanAgain ==
    /\ pc = "cleaned"
    /\ cleanedTwice' = cleanContentHtml(cleaned, imageMap, imagesDir)
    /\ pc' = "cleanedTwice"
    /\ UNCHANGED <<run, excerptVars, dateVars, genVars, imagesDir, crawlVars, htmlStr, cleaned,
                   imageUrl, localFile>>

CleanNext == CleanContent \/ CleanAgain
SpecClean == CleanInit /\ [][CleanNext]_vars

-----------------------------------------------------------------------------
(* The image resolution run on one URL: the specification *)

ImageInit ==
    /\ pc = "image"
    /\ DateIdle /\ GenIdle /\ MapOnly /\ ExcerptIdle /\ run = 1
    /\ imageUrl \in ImageUrls
    /\ imageMap \in ImageMaps
    /\ imagesDir \in ImageDirs
    /\ htmlStr = << >> /\ cleaned = << >> /\ cleanedTwice = << >> /\ localFile = << >>

\* const localFile = findLocalImage(src, imageMap)
FindLocalImage ==
    /\ pc = "image"
    /\ localFile' = findLocalImage(imageUrl, imageMap, imagesDir)
    /\ pc' = "resolved"
    /\ UNCHANGED <<run, excerptVars, dateVars, genVars, imagesDir, crawlVars, htmlStr, cleaned, cleanedTwice,
                   imageUrl>>

ImageNext == FindLocalImage
SpecImage == ImageInit /\ [][ImageNext]_vars

-----------------------------------------------------------------------------
(* The excerpt (generator) *)

\* One occurrence of the phrase "Continuer la lecture" with its arrow, taken
\* as one element of the text
MORE_LINK_TEXT == "Continuer la lecture ->"
ELLIPSIS == <<".", ".", ".">>

\* text.replace(/Continuer la lecture .../g, "")
removeMoreLinkText(text) == SelectSeq(text, LAMBDA c : c # MORE_LINK_TEXT)

\* getExcerpt(html, maxLength), from root.text on.  lastIndexOf is 1-based
\* here: cut > 0 of the source is p > 1, and slice(0, cut) keeps p - 1
\* characters.
getExcerpt(text0, max) ==
    LET text == trim(removeMoreLinkText(text0))
        p == lastIndexOf(slice0(text, max), " ")
    IN IF Len(text) > max
       THEN slice0(text, IF p > 1 THEN p - 1 ELSE max) \o ELLIPSIS
       ELSE text

TextChars == {"a", "b", " ", "\n", MORE_LINK_TEXT}

ExcerptInit ==
    /\ pc = "excerpt"
    /\ DateIdle /\ GenIdle /\ CrawlIdle /\ CleanIdle /\ run = 1 /\ imagesDir = {}
    /\ rootText \in SeqsUpTo(TextChars, MaxTextLen)
    /\ maxLength \in 0 .. MaxExcerptLen
    /\ excerpt = << >>

\* const excerpt = getExcerpt(post.content_html, 160)
GetExcerpt ==
    /\ pc = "excerpt"
    /\ excerpt' = getExcerpt(rootText, maxLength)
    /\ pc' = "excerpted"
    /\ UNCHANGED <<run, dateVars, genVars, imagesDir, crawlVars, cleanVars, rootText, maxLength>>

ExcerptNext == GetExcerpt
SpecExcerpt == ExcerptInit /\ [][ExcerptNext]_vars

-----------------------------------------------------------------------------
(* The date helpers run on one date string: the specification *)

DateInit ==
    /\ pc = "date"
    /\ GenIdle /\ CrawlIdle /\ CleanIdle /\ ExcerptIdle /\ run = 1 /\ imagesDir = {}
    /\ \E d \in 1 .. 31, m \in 1 .. 12, y \in DateYears, f \in DateForms :
          /\ dateIn = [day |-> d, month |-> m, year |-> y, form |-> f]
          /\ dateStr = DateString(d, m, y, f)
    /\ dt = << >>
    /\ formatted = << >>

\* const dt = parseFrenchDate(p.date)
ParseDate ==
    /\ pc = "date"
    /\ dt' = parseFrenchDate(dateStr)
    /\ pc' = "parsed"
    /\ UNCHANGED <<run, excerptVars, dateIn, dateStr, formatted, genVars, imagesDir, crawlVars, cleanVars>>

\* formatDate(dt)
FormatDate ==
    /\ pc = "parsed"
    /\ formatted' = formatDate(dt)
    /\ pc' = "formatted"
    /\ UNCHANGED <<run, excerptVars, dateIn, dateStr, dt, genVars, imagesDir, crawlVars, cleanVars>>

DateNext == ParseDate \/ FormatDate
SpecDate == DateInit /\ [][DateNext]_vars

-----------------------------------------------------------------------------
(* Properties of the generator *)

\* The attachment exclusion list: the slugs of attachment_slugs.json.
ExclusionList == IF attachmentFile = << >> THEN {} ELSE attachmentFile[1]

WrittenPaths == {writes[k].path : k \in DOMAIN writes}
\* The content of the last write of a path in this run.
LastWritten(path) ==
    writes[CHOOSE k \in DOMAIN writes :
              writes[k].path = path /\ \A j \in DOMAIN writes : writes[j].path = path => j <= k].content

\* C1: a post whose slug is in the attachment exclusion list never gets an
\* output page SLUG/index.html, never is a <url> entry of the sitemap and never
\* is an item of the homepage list.
C1_AttachmentNeverEmitted ==
    \A s \in ExclusionList :
        /\ <<s, "index.html">> \notin WrittenPaths
        /\ <<"sitemap.xml">> \in WrittenPaths =>
              \A k \in DOMAIN LastWritten(<<"sitemap.xml">>).urls :
                  LastWritten(<<"sitemap.xml">>).urls[k].loc # <<s>>
        /\ <<"index.html">> \in WrittenPaths =>
              \A k \in DOMAIN LastWritten(<<"index.html">>).items :
                  LastWritten(<<"index.html">>).items[k].slug # s

\* A finished run whose dataset holds an excluded post and a post that is kept.
C1_Witness ==
    /\ pc = "done"
    /\ \E k \in DOMAIN allPosts : allPosts[k].slug \in ExclusionList
    /\ \E k \in DOMAIN allPosts : <<allPosts[k].slug, "index.html">> \in WrittenPaths

-----------------------------------------------------------------------------
(* Properties of the date helpers *)

IsLeapYear(y) == y % 4 = 0 /\ (y % 100 # 0 \/ y % 400 = 0)
DaysInMonth(m, y) ==
    IF m = 2 THEN (IF IsLeapYear(y) THEN 29 ELSE 28)
    ELSE IF m \in {4, 6, 9, 11} THEN 30 ELSE 31
\* A day of the calendar with a four-digit year.
ValidTriple(d, m, y) ==
    m \in 1 .. 12 /\ d >= 1 /\ d <= DaysInMonth(m, y) /\ y >= 1000 /\ y <= 9999

\* C8: for every valid (day, month name, year) with the month name in the
\* table, formatDate(parseFrenchDate("D monthname YYYY")) is "D monthname YYYY".
C8_ParseFormatRoundTrip ==
    (/\ pc = "formatted"
     /\ dateIn.form = "canonical"
     /\ ValidTriple(dateIn.day, dateIn.month, dateIn.year))
    => formatted = CanonicalDate(dateIn.day, dateIn.month, dateIn.year)

\* 29 fevrier of a leap year has been parsed and formatted back.
C8_Witness ==
    /\ pc = "formatted"
    /\ dateIn.form = "canonical"
    /\ dateIn.day = 29 /\ dateIn.month = 2
    /\ ValidTriple(dateIn.day, dateIn.month, dateIn.year)
    /\ dateStr = CanonicalDate(29, 2, dateIn.year)
    /\ formatted = dateStr

\* The reasons that make a date string unparseable: fewer than three tokens,
\* a month that matches no table entry (exactly or by its first three
\* characters), a day or a year that does not start with a number.
StartsWithNumber(tok) ==
    LET body == IF tok # << >> /\ tok[1] \in {"-", "+"} THEN Tail(tok) ELSE tok
    IN body # << >> /\ IsDigit(body[1])
KnownMonth(tok) ==
    \E n \in DOMAIN FRENCH_MONTHS :
        \/ toLowerCase(tok) = FRENCH_MONTHS[n]
        \/ startsWith(toLowerCase(tok), SubSeq(FRENCH_MONTHS[n], 1, 3))
Unparseable(str) ==
    LET toks == splitWhitespace(trim(str))
    IN \/ Len(toks) < 3
       \/ ~StartsWithNumber(toks[1])
       \/ ~KnownMonth(toks[2])
       \/ ~StartsWithNumber(toks[3])

\* First half of C9: an unparseable date string gives a null parsedDate, and
\* the post keeps its raw date string for display.
C9_UnparseableIsNull ==
    pc \notin {"read", "filter", "parse", "fatal", "date", "parsed", "formatted"} =>
        \A k \in DOMAIN posts :
            Unparseable(posts[k].date) =>
                posts[k].parsedDate = << >> /\ posts[k].parsedDateStr = posts[k].date

\* Second half of C9: in the sorted list every post with a null parsed date
\* comes after every post with a parseable date.
C9_NullDatesLast ==
    pc \in {"css", "pages", "cname", "nojekyll", "404", "sitemap", "robots", "done"} =>
        \A i, j \in DOMAIN posts :
            (posts[i].parsedDate = << >> /\ posts[j].parsedDate # << >>) => j < i

\* C9: an unparseable date string (fewer than three tokens, unknown month,
\* non-numeric day or year) makes parseFrenchDate return null, and in the
\* newest-first ordering every post with a null parsed date is placed after
\* every post with a parseable date.
C9_UnparseableSortsOldest == C9_UnparseableIsNull /\ C9_NullDatesLast

\* a is a calendar day not before b
NotBefore(a, b) ==
    \/ a.year > b.year
    \/ a.year = b.year /\ a.month > b.month
    \/ a.year = b.year /\ a.month = b.month /\ a.date >= b.date

\* The post pages written so far, in the order written.
PageWrites == SelectSeq(writes, LAMBDA w : w.content.kind = "post")

\* C10: the homepage lists the posts newest first, and the page of the post at
\* position i links as previous to the post at position i+1 and as next to
\* the post at position i-1; the oldest page has no previous link and the
\* newest no next link.
C10_NewestFirstReciprocalLinks ==
    /\ pc \in {"css", "pages", "cname", "nojekyll", "404", "sitemap", "robots", "done"} =>
          \A i, j \in DOMAIN posts :
              (i < j /\ posts[i].parsedDate # << >> /\ posts[j].parsedDate # << >>)
              => NotBefore(posts[i].parsedDate[1], posts[j].parsedDate[1])
    /\ <<"index.html">> \in WrittenPaths =>
          LET items == LastWritten(<<"index.html">>).items
          IN /\ Len(items) = Len(posts)
             /\ Len(items) = Cardinality({k \in DOMAIN allPosts :
                                             allPosts[k].slug \notin ExclusionList})
             /\ \A k \in DOMAIN items : items[k].slug = posts[k].slug
    /\ \A i \in DOMAIN PageWrites :
          /\ PageWrites[i].path = <<posts[i].slug, "index.html">>
          /\ PageWrites[i].content.prev =
                (IF i < Len(posts) THEN <<posts[i + 1].slug>> ELSE << >>)
          /\ PageWrites[i].content.next = (IF i > 1 THEN <<posts[i - 1].slug>> ELSE << >>)
    /\ \A i, j \in DOMAIN PageWrites :
          j = i + 1 => /\ PageWrites[i].content.prev = <<PageWrites[j].content.slug>>
                       /\ PageWrites[j].content.next = <<PageWrites[i].content.slug>>

\* The two-post scenario: posts dated 5 mars 2020 and 10 mars 2021, given
\* oldest first; the homepage lists the 2021 post first and each page links
\* to the other.
C10_Witness ==
    /\ pc = "done"
    /\ allPosts = <<[slug |-> "a", date |-> CanonicalDate(5, 3, 2020)],
                    [slug |-> "b", date |-> CanonicalDate(10, 3, 2021)]>>
    /\ LastWritten(<<"index.html">>).items =
          <<[slug |-> "b", dateStr |-> CanonicalDate(10, 3, 2021)],
            [slug |-> "a", dateStr |-> CanonicalDate(5, 3, 2020)]>>
    /\ LastWritten(<<"b", "index.html">>).prev = <<"a">>
    /\ LastWritten(<<"b", "index.html">>).next = << >>
    /\ LastWritten(<<"a", "index.html">>).next = <<"b">>
    /\ LastWritten(<<"a", "index.html">>).prev = << >>

-----------------------------------------------------------------------------
(* Properties of the image resolution *)

\* u is key with a size put before the extension: key = name.ext and
\* u = name-WIDTHxHEIGHT.ext, WIDTH and HEIGHT being digits
IsSizedVariantOf(u, key) ==
    \E d \in DOMAIN u :
        /\ u[d] = "." /\ d < Len(u)
        /\ \A i \in d + 1 .. Len(u) : IsWord(u[i])
        /\ \E x \in 1 .. d - 2 :
              /\ u[x] = "x"
              /\ \A i \in x + 1 .. d - 1 : IsDigit(u[i])
              /\ \E h \in 1 .. x - 2 :
                    /\ u[h] = "-"
                    /\ \A i \in h + 1 .. x - 1 : IsDigit(u[i])
                    /\ key = SubSeq(u, 1, h - 1) \o SubSeq(u, d, Len(u))

ExactEntries(url, map) == {k \in DOMAIN map : map[k].url = normalizeProtocol(url)}
SizedEntries(url, map) == {k \in DOMAIN map : IsSizedVariantOf(normalizeProtocol(url), map[k].url)}
NamedEntries(url, map) ==
    {k \in DOMAIN map : basename(beforeQuery(map[k].url)) = basename(beforeQuery(url))}
OnDisk(url, dir) == sanitize(basename(beforeQuery(url))) \in dir

\* C7: a URL with a size suffix that has no entry of its own resolves to the
\* file of the entry keyed by the URL without the suffix, and the result is
\* that of the first stage that finds something, in the order: exact match
\* after protocol normalisation, match without the size suffix, match by
\* base name over the keys in their order, sanitized base name in the images
\* directory; null when no stage finds anything.
C7_SizeSuffixAndStageOrder ==
    pc = "resolved" =>
        LET exact == ExactEntries(imageUrl, imageMap)
            sized == SizedEntries(imageUrl, imageMap)
            named == NamedEntries(imageUrl, imageMap)
        IN IF exact # {} THEN \E k \in exact : localFile = imageMap[k].file
           ELSE IF sized # {} THEN \E k \in sized : localFile = imageMap[k].file
           ELSE IF named # {}
                THEN \E k \in named : /\ localFile = imageMap[k].file
                                      /\ \A j \in named : k <= j
           ELSE IF OnDisk(imageUrl, imagesDir)
                THEN localFile = sanitize(basename(beforeQuery(imageUrl)))
           ELSE localFile = << >>

\* A sized URL resolved through the entry of the unsized URL although an
\* entry of the same base name and a file of the sized name both exist
C7_Witness ==
    /\ pc = "resolved"
    /\ ExactEntries(imageUrl, imageMap) = {}
    /\ SizedEntries(imageUrl, imageMap) # {}
    /\ \E k \in NamedEntries(imageUrl, imageMap) : imageMap[k].file # localFile
    /\ OnDisk(imageUrl, imagesDir)
    /\ localFile = FILE_P

-----------------------------------------------------------------------------
(* Properties of the content cleaning *)

Cleaned == pc \in {"cleaned", "cleanedTwice"}
ImagesOf(f) == {i \in DOMAIN f : f[i].tag = "img"}
Ids(f) == {f[k].id : k \in DOMAIN f}
MapFiles == {imageMap[k].file : k \in DOMAIN imageMap}

\* Some lookup stage has a match for the source
Resolvable(src) ==
    \/ ExactEntries(src, imageMap) # {}
    \/ SizedEntries(src, imageMap) # {}
    \/ NamedEntries(src, imageMap) # {}
    \/ OnDisk(src, imagesDir)

\* C3: cleaning the output of a cleaning again returns it as it is.
C3_Idempotent == pc = "cleanedTwice" => cleanedTwice = cleaned

\* C4 as stated: the output is the same whatever the images directory holds.
C4_SameForAnyDirectory ==
    Cleaned => \A dir \in CleanDirs : cleanContentHtml(htmlStr, imageMap, dir) = cleaned

\* The sources of the fragment that no entry of the image map matches
UnmappedSources ==
    {htmlStr[i].src : i \in {j \in ImagesOf(htmlStr) :
        /\ htmlStr[j].src # << >>
        /\ ExactEntries(htmlStr[j].src, imageMap) = {}
        /\ SizedEntries(htmlStr[j].src, imageMap) = {}
        /\ NamedEntries(htmlStr[j].src, imageMap) = {}}}
AgreesWith(dir) == \A s \in UnmappedSources : OnDisk(s, dir) <=> OnDisk(s, imagesDir)

\* C4: the output is a function of the fragment, the image map and the
\* images directory, and of the directory only what it says about the
\* sanitized base names of the sources that the map does not match.
C4_SameForAgreeingDirectories ==
    Cleaned => \A dir \in CleanDirs :
                  AgreesWith(dir) => cleanContentHtml(htmlStr, imageMap, dir) = cleaned

\* An image kept because of a file in the directory, the same with another
\* directory that holds the file too
C4_Witness ==
    /\ pc = "cleaned"
    /\ \E k \in ImagesOf(cleaned) : cleaned[k].src = IMAGES_PREFIX \o FILE_Q_CLEAN
    /\ \E dir \in CleanDirs : dir # imagesDir /\ AgreesWith(dir)

HasLocalPath(src) == \E file \in MapFiles \cup imagesDir : src = IMAGES_PREFIX \o file

UnresolvableImages(f) ==
    {k \in ImagesOf(f) : f[k].src # << >> /\ ~Resolvable(f[k].src)}
\* What else takes an image out: it stands outside the content wrapper, or
\* in a share widget, a more-link or a caption without text, or in a figure
\* or link together with an image that has no match, or in a link to an
\* image together with another image.
RemovedWithContext(i) ==
    LET anc == ancestors(htmlStr, i)
        w == findWrapper(htmlStr)
    IN \/ w # 0 /\ w \notin anc
       \/ \E j \in anc : htmlStr[j].tag \in {"div", "span"} /\ isShareClass(htmlStr[j].cls)
       \/ \E j \in anc : htmlStr[j].tag = "a" /\ htmlStr[j].cls = "more-link"
       \/ \E j \in anc : htmlStr[j].tag = "figcaption" /\ ~hasText(htmlStr, j)
       \/ \E j \in anc : /\ htmlStr[j].tag \in {"figure", "a"}
                         /\ (descendants(htmlStr, j) \ {i}) \cap UnresolvableImages(htmlStr) # {}
       \/ \E j \in anc : /\ htmlStr[j].tag = "a" /\ isImageHref(htmlStr[j].href)
                         /\ (descendants(htmlStr, j) \ {i}) \cap ImagesOf(htmlStr) # {}

LookedUp ==
    LET d == pruneEmpty(removeMoreLinks(removeShareButtons(
                 unwrap(htmlStr, findWrapper(htmlStr)))))
    IN {i \in Range(querySelectorAll(d, {"img"})) : htmlStr[i].src # << >>}
Absent(i) == i \notin Ids(cleaned)
Gone(i) == Absent(i) /\ \A j \in descendants(htmlStr, i) : Absent(j)

\* C6: for an image whose lookup fails at all four stages, the nearest
\* enclosing figure is not in the output, nor anything in it; without a
\* figure the nearest enclosing link and the image are not in the output,
\* and without a link the image is not in the output.
C6_UnresolvableRemovesFigureLinkOrImage ==
    Cleaned /\ htmlStr # << >> =>
        \A i \in LookedUp :
            findLocalImage(htmlStr[i].src, imageMap, imagesDir) = << >> =>
                LET fig == closest(htmlStr, i, "figure")
                    link == closest(htmlStr, i, "a")
                IN IF fig # 0 THEN Gone(fig)
                   ELSE IF link # 0 THEN Absent(link) /\ Absent(i)
                   ELSE Absent(i)

-----------------------------------------------------------------------------
(* Properties of the sitemap *)

\* The posts of the dataset that pass the attachment filter, in dataset order
KeptPosts == SelectSeq(allPosts, LAMBDA q : q.slug \notin ExclusionList)
SitemapUrls == LastWritten(<<"sitemap.xml">>).urls
\* The number of entries of the sitemap for /slug/
EntriesFor(slug) == Cardinality({k \in DOMAIN SitemapUrls : SitemapUrls[k].loc = <<slug>>})

\* C11: the written sitemap has one entry for the homepage and one entry per
\* post that passed the attachment filter, N + 1 entries for N posts, and the
\* entry of a post has a <lastmod> exactly when the date of the post parsed.
C11_SitemapEntries ==
    <<"sitemap.xml">> \in WrittenPaths =>
        /\ Len(SitemapUrls) = Len(KeptPosts) + 1
        /\ Cardinality({k \in DOMAIN SitemapUrls : SitemapUrls[k].loc = << >>}) = 1
        /\ SitemapUrls[1] = [loc |-> << >>, lastmod |-> << >>]
        /\ \A s \in Slugs :
              EntriesFor(s) = Cardinality({k \in DOMAIN KeptPosts : KeptPosts[k].slug = s})
        /\ \A k \in DOMAIN posts :
              /\ SitemapUrls[k + 1].loc = <<posts[k].slug>>
              /\ SitemapUrls[k + 1].lastmod # << >> <=> parseFrenchDate(posts[k].date) # << >>

\* A sitemap of three entries: one post with a date that parsed, one with a
\* date that did not, and an attachment of the dataset left out
C11_Witness ==
    /\ pc = "done"
    /\ Len(allPosts) = 3 /\ Len(KeptPosts) = 2
    /\ Len(SitemapUrls) = 3
    /\ \E k \in DOMAIN SitemapUrls : k > 1 /\ SitemapUrls[k].lastmod # << >>
    /\ \E k \in DOMAIN SitemapUrls :
          /\ k > 1 /\ SitemapUrls[k].lastmod = << >>
          /\ posts[k - 1].date # << >>

-----------------------------------------------------------------------------
(* Properties of the excerpt *)

\* The text the excerpt is cut from: the phrase removed, the ends trimmed
PlainText == trim(removeMoreLinkText(rootText))
\* The positions of white space among the first maxLength characters
SpacesBeforeLimit == {i \in 1 .. maxLength : i <= Len(PlainText) /\ IsSpace(PlainText[i])}
\* Cutting after c characters leaves both neighbours of the cut inside a word
SplitsWord(c) ==
    /\ c >= 1 /\ c < Len(PlainText)
    /\ ~IsSpace(PlainText[c]) /\ ~IsSpace(PlainText[c + 1])

\* C12: the excerpt has at most maxLength characters and the ellipsis, and
\* when the text is cut, it is cut at or before the last white space among
\* its first maxLength characters and not inside a word, unless there is no
\* white space among them.
C12_ExcerptBoundedNoSplit ==
    pc = "excerpted" =>
        /\ Len(excerpt) <= maxLength + 3
        /\ Len(PlainText) > maxLength =>
              \E c \in 0 .. maxLength :
                  /\ excerpt = SubSeq(PlainText, 1, c) \o ELLIPSIS
                  /\ SpacesBeforeLimit # {} =>
                        /\ \E i \in SpacesBeforeLimit : c <= i
                        /\ ~SplitsWord(c)

-----------------------------------------------------------------------------
(* Properties of the crawl run *)

\* What the post loop did, turn by turn
FetchLog == SelectSeq(log, LAMBDA e : e.op = "fetchPost")
\* The positions of the candidate URLs whose page was fetched and gave a post
Extracted ==
    SelectSeq([k \in 1 .. Len(FetchLog) |-> k], LAMBDA k : FetchLog[k].result = "post")
\* The dataset this run wrote
Dataset == savedData[1]

\* A run aborts only on its sitemap fetch; at the end every candidate URL of
\* the sitemap, in its order, had its turn, and the dataset holds the posts
\* of the turns that gave one, in that order.
C13_SkippedNotAborted ==
    /\ pc = "fatal" => log = <<[op |-> "fetchSitemap"]>>
    /\ pc \notin {"sitemap", "fatal", "filterUrls"} =>
          /\ postUrls = SelectSeq(allUrls, isBlogPostUrl)
          /\ Len(FetchLog) <= Len(postUrls)
          /\ \A k \in DOMAIN FetchLog : FetchLog[k].url = postUrls[k]
    /\ pc = "crawled" =>
          /\ Len(FetchLog) = Len(postUrls)
          /\ Len(Dataset.posts) = Len(Extracted)
          /\ \A j \in DOMAIN Extracted :
                /\ Dataset.posts[j].url = postUrls[Extracted[j]]
                /\ Dataset.posts[j].slug = stripSlashes(pathname(postUrls[Extracted[j]]))

DownloadLog == SelectSeq(log, LAMBDA e : e.op = "download")
\* The files the dataset on disk names
PersistedFiles == {Dataset.image_map[k].file : k \in DOMAIN Dataset.image_map}

\* A turn of the download loop on an image whose file exists: no fetch, no
\* write, the file name is what the turn returns
C14_ExistingFileStep ==
    /\ imagesDir \subseteq imagesDir'
    /\ (pc = "images" /\ imgIdx < Len(allImages)
          /\ downloadName(allImages[imgIdx + 1]) \in imagesDir) =>
          /\ imagesDir' = imagesDir
          /\ log' = Append(log, [op |-> "download", url |-> allImages[imgIdx + 1],
                                 result |-> "exists"])
          /\ mapGet(imageMap', allImages[imgIdx + 1]) = <<downloadName(allImages[imgIdx + 1])>>
\* In a later run, before it writes its own dataset, no image whose file the
\* previous run's dataset names is fetched
C14_LaterRunFetchesNothingPersisted ==
    (run > 1 /\ pc # "crawled") =>
        \A k \in DOMAIN DownloadLog :
            downloadName(DownloadLog[k].url) \in PersistedFiles
                => DownloadLog[k].result = "exists"

\* C14: downloadImage leaves the images directory alone when the file with
\* the derived name exists: no fetch, no write, the name is returned; so a
\* second run downloads nothing that the first run persisted.
C14_DownloadIdempotent ==
    /\ [][C14_ExistingFileStep]_vars
    /\ []C14_LaterRunFetchesNothingPersisted

C14_Witness ==
    /\ run = 2 /\ pc = "images"
    /\ downloadName(IMG_Q) \in PersistedFiles
    /\ \E k \in DOMAIN DownloadLog :
          DownloadLog[k].url = IMG_Q /\ DownloadLog[k].result = "exists"
    /\ mapGet(imageMap, IMG_Q) = <<downloadName(IMG_Q)>>

-----------------------------------------------------------------------------
(* Properties of generator runs in a row *)

ROBOTS == <<"robots.txt">>
\* The files every run writes, post pages apart
AlwaysWritten == {<<"index.html">>, <<"404.html">>, <<"style.css">>, <<"sitemap.xml">>,
                  <<"CNAME">>, <<".nojekyll">>}
\* What a run generates for each of them
Generated(path) ==
    IF path = <<"index.html">> THEN generateHomepage(posts)
    ELSE IF path = <<"sitemap.xml">> THEN [kind |-> "sitemap", urls |-> generateSitemap(posts)]
    ELSE StaticFile(path[1])

\* No step of a run changes a robots.txt that exists, and the last step
\* writes the default one when none exists
C15_RobotsStep ==
    pc # "done" =>
        /\ ROBOTS \in DOMAIN docs => (ROBOTS \in DOMAIN docs' /\ docs'[ROBOTS] = docs[ROBOTS])
        /\ (ROBOTS \notin DOMAIN docs /\ pc = "robots") =>
              (ROBOTS \in DOMAIN docs' /\ docs'[ROBOTS] = StaticFile("robots.txt"))
\* At the end of every run each of the other files was written in this run
\* and holds what this run generated, whatever it held before
C15_OthersOverwritten ==
    pc = "done" =>
        /\ \A path \in AlwaysWritten :
              path \in WrittenPaths /\ docs[path] = Generated(path)
        /\ \A k \in DOMAIN posts :
              /\ <<posts[k].slug, "index.html">> \in WrittenPaths
              /\ docs[<<posts[k].slug, "index.html">>].kind = "post"
        /\ ROBOTS \in DOMAIN docs

\* C15: over any number of generator runs a robots.txt that exists before a
\* run keeps its content, while index.html, the post pages, 404.html,
\* style.css, sitemap.xml, CNAME and .nojekyll are written again by every
\* run.
C15_RobotsKeptOthersOverwritten ==
    /\ [][C15_RobotsStep]_vars
    /\ []C15_OthersOverwritten

C15_Witness ==
    /\ run = 2 /\ pc = "done"
    /\ docs[ROBOTS] = ManualRobots
    /\ ROBOTS \notin WrittenPaths
    /\ Len(posts) = 2
    /\ docs[<<"404.html">>] = StaticFile("404.html")
    /\ AlwaysWritten \subseteq WrittenPaths

\* The number of entries of kind op among the first k entries of the log
CountBefore(op, k) == Cardinality({j \in 1 .. k - 1 : log[j].op = op})

\* The order of the entries of the log of a run
C16_LogOrder ==
    \A k \in DOMAIN log :
        /\ log[k].op = "fetchSitemap" => k = 1
        /\ log[k].op = "fetchPost" =>
              /\ log[k].url = postUrls[CountBefore("fetchPost", k) + 1]
              /\ CountBefore("sleep", k) = CountBefore("fetchPost", k)
              /\ IF k = Len(log) THEN pc = "sleep" ELSE log[k + 1].op = "sleep"
        /\ log[k].op = "sleep" => log[k - 1].op = "fetchPost"
        /\ log[k].op = "download" =>
              /\ CountBefore("fetchPost", k) = Len(postUrls)
              /\ CountBefore("sleep", k) = Len(postUrls)
              /\ log[k].url = allImages[CountBefore("download", k) + 1]
              /\ \A j \in k + 1 .. Len(log) : log[j].op \in {"download", "write"}
        /\ log[k].op = "write" =>
              /\ k = Len(log) /\ pc = "crawled"
              /\ CountBefore("fetchPost", k) = Len(postUrls)
              /\ CountBefore("download", k) = Len(allImages)
\* A step of a run is one request, one pause or one write
C16_OneAtATime ==
    \/ log' = log
    \/ Len(log') = Len(log) + 1 /\ SubSeq(log', 1, Len(log)) = log

\* C16: the steps of a crawl run are strictly sequential: the post pages are
\* fetched one at a time with a pause after each, no image download starts
\* before the last post page was processed, the images are downloaded one at
\* a time, and the dataset is written only after the last image download.
C16_StrictlySequential ==
    /\ []C16_LogOrder
    /\ [][C16_OneAtATime]_vars

C16_Witness ==
    /\ pc = "crawled"
    /\ Len(FetchLog) = 2
    /\ Len(DownloadLog) = 3
    /\ log[Len(log)].op = "write"
    /\ log[Len(log) - 1].op = "download"
    /\ log[Len(log) - 4].op = "sleep"

\* The keys of the image_map of the dataset, and the file a key maps to
MapKeys == {Dataset.image_map[k].url : k \in DOMAIN Dataset.image_map}
FileOf(url) == Dataset.image_map[CHOOSE k \in DOMAIN Dataset.image_map :
                                     Dataset.image_map[k].url = url].file
\* The download of url ended with one of the results
Downloaded(url, results) ==
    \E k \in DOMAIN DownloadLog : DownloadLog[k].url = url /\ DownloadLog[k].result \in results
\* The key under which the image_map answers for an image of a post: the URL
\* with https:// for http://, else the URL as it stands; << >> when neither
\* is a key
MatchFor(img) ==
    IF normalizeProtocol(img) \in MapKeys THEN <<normalizeProtocol(img)>>
    ELSE IF img \in MapKeys THEN <<img>>
    ELSE << >>

\* The dataset a run wrote, against what its downloads did
C17_DatasetAfterDownloads ==
    /\ pc = "fatal" => DownloadLog = << >>
    /\ pc = "crawled" =>
          /\ Len(DownloadLog) = Len(allImages)
          /\ \A url \in MapKeys : Downloaded(url, {"fetched", "exists"})
          /\ \A url \in Range(allImages) : Downloaded(url, {"failed"}) => url \notin MapKeys
          /\ \A url \in MapKeys : FileOf(url) \in imagesDir
          /\ \A j \in DOMAIN Dataset.posts :
                LET post == Dataset.posts[j]
                IN /\ Len(post.local_images) = Len(post.images)
                   /\ \A k \in DOMAIN post.images :
                         /\ post.local_images[k] = << >> <=> MatchFor(post.images[k]) = << >>
                         /\ MatchFor(post.images[k]) # << >> =>
                               post.local_images[k] = <<FileOf(MatchFor(post.images[k])[1])>>
\* The last download failed
DownloadJustFailed ==
    /\ pc = "images"
    /\ DownloadLog # << >>
    /\ log[Len(log)].op = "download" /\ log[Len(log)].result = "failed"

-----------------------------------------------------------------------------
(* Properties of the URL filter *)

\* The path of a URL of the site: what follows the host up to the query or
\* fragment, "/" when nothing does
PathOf(url) ==
    LET tail == SubSeq(url, Len(BASE_URL) + 1, Len(url))
        stops == {i \in DOMAIN tail : tail[i] \in {"?", "#"}}
        end == IF stops = {} THEN Len(tail) ELSE (CHOOSE i \in stops : \A j \in stops : i <= j) - 1
    IN IF end = 0 THEN <<"/">> ELSE SubSeq(tail, 1, end)
\* The path without its leading slash and without one trailing slash
Stripped(url) ==
    LET path == PathOf(url)
        last == IF Len(path) >= 2 /\ path[Len(path)] = "/" THEN Len(path) - 1 ELSE Len(path)
    IN SubSeq(path, 2, last)
\* The pieces of the stripped path between its slashes
SegmentCount(url) == 1 + Cardinality({i \in DOMAIN Stripped(url) : Stripped(url)[i] = "/"})
HasAttachmentMarker(url) ==
    \E i \in 1 .. Len(url) - Len(ATTACHMENT_ID) + 1 :
        \A j \in DOMAIN ATTACHMENT_ID : url[i + j - 1] = ATTACHMENT_ID[j]
Accepted(url) ==
    /\ Stripped(url) # << >>
    /\ Stripped(url) \notin SKIP_SLUGS
    /\ SegmentCount(url) = 1
    /\ ~HasAttachmentMarker(url)

\* C18: isBlogPostUrl accepts a sitemap URL exactly when its path, leading
\* and trailing slash stripped, is not empty, is not in the deny-list and is
\* one segment, and the URL does not contain the attachment marker.
C18_AcceptsExactlyPostUrls ==
    pc = "posts" => postUrls = SelectSeq(allUrls, Accepted)

C18_Witness ==
    /\ pc = "posts"
    /\ Len(allUrls) = 2 /\ Len(postUrls) = 1
    /\ Stripped(allUrls[1]) \in SKIP_SLUGS /\ ~HasAttachmentMarker(allUrls[1])
    /\ postUrls[1] = allUrls[2]
    /\ Stripped(allUrls[2]) = <<"x", "-", "p", "r", "o", "d", "u", "c", "t", "s">>

=============================================================================
